---------------------------- MODULE Spec2Model ----------------------------
(***************************************************************************)
(* Eligibility-criteria extraction scripts: the retrying fetcher           *)
(* (automation_api.fetch_eligibility_html), the section locator            *)
(* (find_inclusion_exclusion_lists / ..._from_html), the sequential batch  *)
(* mains and the thread-pool batch mains (batch_compare_ncts and friends), *)
(* analyze_list, compare_sets, the identifier readers and the file steps   *)
(* of download_one.                                                        *)
(* Each component has its own specification over the shared variables;     *)
(* the variables of the other components stay at their idle values.        *)
(***************************************************************************)
EXTENDS Integers, Sequences, FiniteSets, TLC

VARIABLES
    \* ---- fetch_eligibility_html (automation_api.py:43-83)
    fpc,        \* "idle" | "loop" | "returned" | "raised"
    attempt,    \* the loop variable: number of the last attempt started
    last_exc,   \* last exception caught, None before the first
    slept,      \* total back-off slept, in tenths of a second
    fetch_ret,  \* the value returned to the caller (None = failure value)
    calls,      \* the responses the endpoint served, one per session.get
    \* ---- thread-pool batch mains (batch_compare_ncts.py:192-242,
    \*      extract_secondary_outcomes_direct_batch.py:64-96,
    \*      download_files_local.py:115-141)
    prog,         \* which main runs: "batch_compare" | "secondary" | "download" | "idle"
    nct_ids,      \* the identifier list, in dispatch order
    submitted,    \* how many executor.submit calls the comprehension has made
    task,         \* per identifier: the state of its future and of its task body
    collected,    \* the futures as_completed has already yielded
    results,      \* results (batch_compare, download)
    combined,     \* combined_site_records (batch_compare), all_outcomes (secondary)
    failed,       \* failed_nct_ids (secondary)
    processed,    \* processed_count (secondary), done (download)
    mpc,          \* main thread: "submit" | "collect" | "drained" | "written" | "aborted"
    out_summary,  \* the summary / results CSV as written
    out_combined, \* the combined JSON as written
    \* ---- the section locator (dynamic_eligibility_checker.py:35-95,
    \*      automation_api.py:86-127)
    variant,        \* "page": find_inclusion_exclusion_lists, "api": ..._from_html
    doc,            \* the parsed document: its nodes in document order
    lpc,            \* "parse" | "scanned" | "legacy" | "done" | "idle"
    inclusion_list, \* the Inclusion root: a node of doc, 0 for None
    exclusion_list, \* the Exclusion root: a node of doc, 0 for None
    consulted,      \* per section, the tiers evaluated for it so far, in order
    \* ---- the sequential batch mains (automation_api.py:178-307,
    \*      dynamic_eligibility_checker.py:209-323)
    seq_prog,       \* "api_main" | "page_main" | "idle"
    seq_ids,        \* nct_ids: the requested identifiers, in order
    done_ids,       \* per loop iteration so far, how that identifier ended
    all_rows,       \* all_rows
    incorrect_rows, \* incorrect_rows
    per_id_times,   \* per_id_times (automation_api only)
    spc,            \* "loop" | "reported" | "crashed" | "no_ids" | "idle"
    written,        \* the report files written so far
    results_csv,    \* dynamic_eligibility_results[_api].csv
    incorrect_csv,  \* dynamic_incorrect_statements[_api].csv
    timing_csv,     \* dynamic_eligibility_timing_api.csv
    summary_csv,    \* dynamic_eligibility_summary[_api].csv: its one row, or <<>>
    \* ---- locating and classifying one document (automation_api.py:222-224,
    \*      dynamic_eligibility_checker.py:197-202)
    source,         \* "api" | "page" | "idle": whose locator and analyze_list run
    soup,           \* the parsed criteria markup: its nodes in document order
    apc,            \* "parse" | "located" | "half" | "analyzed" | "again" | "idle"
    incl_list,      \* incl_list: the Inclusion root of this run, 0 for None
    excl_list,      \* excl_list: the Exclusion root of this run, 0 for None
    inc_res,        \* analyze_list(incl_list, "Inclusion")
    exc_res,        \* analyze_list(excl_list, "Exclusion")
    run,            \* which run over the same document this is: 1 or 2
    earlier,        \* what the first run read and returned, <<>> during it
    \* ---- compare_sets (batch_compare_ncts.py:43-57)
    site_recs,      \* site_recs: the first collection, A
    json_recs,      \* json_recs: the second collection, B
    cpc,            \* "build" | "compared" | "idle"
    cmp_ret,        \* what compare_sets returned, None before
    \* ---- the identifier readers (automation_api.py:27-40,
    \*      batch_compare_ncts.py:21-40,
    \*      extract_secondary_outcomes_direct_batch.py:10-33)
    reader,         \* "read_nct_ids_from_csv" | "load_nct_ids_from_csv" |
                    \* "extract_nct_ids_from_ctg_file" | "idle"
    cells,          \* the identifier values of the input file, in file order
    rpc,            \* "file" | "read" | "idle"
    ids_read,       \* the list the reader returned
    \* ---- download_one under the pool (download_files_local.py:39-85, 118-126)
    out_dir,        \* the names that exist in the output directory
    dl              \* per download task: where it is and the path it holds

fetchVars == <<fpc, attempt, last_exc, slept, fetch_ret, calls>>

batchVars == <<prog, nct_ids, submitted, task, collected, results, combined,
               failed, processed, mpc, out_summary, out_combined>>

locVars == <<variant, doc, lpc, inclusion_list, exclusion_list, consulted>>

seqVars == <<seq_prog, seq_ids, done_ids, all_rows, incorrect_rows, per_id_times,
             spc, written, results_csv, incorrect_csv, timing_csv, summary_csv>>

anaVars == <<source, soup, apc, incl_list, excl_list, inc_res, exc_res, run, earlier>>

cmpVars == <<site_recs, json_recs, cpc, cmp_ret>>

readVars == <<reader, cells, rpc, ids_read>>

dlVars == <<out_dir, dl>>

vars == <<fetchVars, batchVars, locVars, seqVars, anaVars, cmpVars, readVars, dlVars>>

\* What each component leaves alone.
notFetch == <<batchVars, locVars, seqVars, anaVars, cmpVars, readVars, dlVars>>

notBatch == <<fetchVars, locVars, seqVars, anaVars, cmpVars, readVars, dlVars>>

notLoc == <<fetchVars, batchVars, seqVars, anaVars, cmpVars, readVars, dlVars>>

notSeq == <<fetchVars, batchVars, locVars, anaVars, cmpVars, readVars, dlVars>>

notAna == <<fetchVars, batchVars, locVars, seqVars, cmpVars, readVars, dlVars>>

notCmp == <<fetchVars, batchVars, locVars, seqVars, anaVars, readVars, dlVars>>

notRead == <<fetchVars, batchVars, locVars, seqVars, anaVars, cmpVars, dlVars>>

notDl == <<fetchVars, batchVars, locVars, seqVars, anaVars, cmpVars, readVars>>

None == "None"

(***************************************************************************)
(* fetch_eligibility_html                                                  *)
(***************************************************************************)
MAX_RETRIES == 3

\* What one session.get can meet.  net: the round trip completed; status: the
\* HTTP status; module: which key of protocolSection carries the eligibility
\* module ("typo" is the misspelt elgibilityModule key, "empty" an empty
\* object under the correct key); criteria: the eligibilityCriteria field.
Payloads == {"<ol>h1</ol>", "<ol>h2</ol>"}

Responses ==
    {[net |-> FALSE, status |-> 0,   module |-> "absent",  criteria |-> "absent"],
     [net |-> TRUE,  status |-> 500, module |-> "correct", criteria |-> "<ol>h1</ol>"],
     [net |-> TRUE,  status |-> 200, module |-> "absent",  criteria |-> "absent"],
     [net |-> TRUE,  status |-> 200, module |-> "empty",   criteria |-> "absent"],
     [net |-> TRUE,  status |-> 200, module |-> "correct", criteria |-> "absent"],
     [net |-> TRUE,  status |-> 200, module |-> "correct", criteria |-> ""],
     [net |-> TRUE,  status |-> 200, module |-> "correct", criteria |-> "<ol>h1</ol>"],
     [net |-> TRUE,  status |-> 200, module |-> "correct", criteria |-> "<ol>h2</ol>"],
     [net |-> TRUE,  status |-> 200, module |-> "typo",    criteria |-> "<ol>h2</ol>"]}

\* resp.raise_for_status(): raises for a 4xx/5xx status.
raise_for_status(resp) == resp.status >= 400

\* The body of the try block for one response: either the value returned
\* (return str(html)) or the exception raised.
TryBody_NoEmptyCheck(resp) ==
    IF ~resp.net THEN [raised |-> TRUE, exc |-> "ConnectionError", value |-> None]
    ELSE IF raise_for_status(resp)
         THEN [raised |-> TRUE, exc |-> "HTTPError", value |-> None]
    ELSE IF resp.module \in {"absent", "empty"}
         THEN [raised |-> TRUE, exc |-> "RuntimeError: eligibilityModule not found in response",
               value |-> None]
    ELSE IF resp.criteria = "absent"
         THEN [raised |-> TRUE, exc |-> "RuntimeError: eligibilityCriteria missing/empty",
               value |-> None]
    ELSE [raised |-> FALSE, exc |-> None, value |-> resp.criteria]

TryBody(resp) ==
    IF ~resp.net THEN [raised |-> TRUE, exc |-> "ConnectionError", value |-> None]
    ELSE IF raise_for_status(resp)
         THEN [raised |-> TRUE, exc |-> "HTTPError", value |-> None]
    ELSE IF resp.module \in {"absent", "empty"}
         THEN [raised |-> TRUE, exc |-> "RuntimeError: eligibilityModule not found in response",
               value |-> None]
    ELSE IF resp.criteria \in {"absent", ""}
         THEN [raised |-> TRUE, exc |-> "RuntimeError: eligibilityCriteria missing/empty",
               value |-> None]
    ELSE [raised |-> FALSE, exc |-> None, value |-> resp.criteria]

\* for attempt in range(1, MAX_RETRIES + 1)
AttemptRange_OneMore == 1 .. (MAX_RETRIES + 1)

AttemptRange == 1 .. MAX_RETRIES

\* except Exception as e: every exception of the try block is caught.
Caught(exc) == TRUE

\* One iteration of the retry loop: session.get, the checks, and either the
\* return or the except clause with its back-off sleep.
FetchAttempt ==
    /\ fpc = "loop"
    /\ attempt + 1 \in AttemptRange
    /\ \E resp \in Responses :
         LET r == TryBody(resp) IN
         /\ attempt' = attempt + 1
         /\ calls' = Append(calls, resp)
         /\ IF ~r.raised
            THEN /\ fpc' = "returned"
                 /\ fetch_ret' = r.value
                 /\ UNCHANGED <<last_exc, slept>>
            ELSE IF Caught(r.exc)
            THEN /\ last_exc' = r.exc
                 /\ slept' = slept + 8 * (attempt + 1)
                 /\ UNCHANGED <<fpc, fetch_ret>>
            ELSE /\ fpc' = "raised"
                 /\ UNCHANGED <<last_exc, slept, fetch_ret>>

\* The loop is exhausted: print the error and return None.
FetchGiveUp ==
    /\ fpc = "loop"
    /\ attempt + 1 \notin AttemptRange
    /\ fpc' = "returned"
    /\ fetch_ret' = None
    /\ UNCHANGED <<attempt, last_exc, slept, calls>>

FetchInit ==
    /\ fpc = "loop"
    /\ attempt = 0
    /\ last_exc = None
    /\ slept = 0
    /\ fetch_ret = None
    /\ calls = <<>>

FetchIdle ==
    /\ fpc = "idle"
    /\ attempt = 0
    /\ last_exc = None
    /\ slept = 0
    /\ fetch_ret = None
    /\ calls = <<>>

(***************************************************************************)
(* Claims about fetch_eligibility_html                                     *)
(***************************************************************************)
\* A successful attempt as the contract defines it: a completed round trip
\* with a 2xx status whose payload carries the non-empty criteria field.
IsSuccess(resp) ==
    /\ resp.net
    /\ resp.status \in 200 .. 299
    /\ resp.module \in {"correct", "typo"}
    /\ resp.criteria \in Payloads

FirstSuccess ==
    CHOOSE i \in 1 .. Len(calls) :
        IsSuccess(calls[i]) /\ \A j \in 1 .. (i - 1) : ~IsSuccess(calls[j])

\* C8: fetch_eligibility_html makes at most MAX_RETRIES attempts; when every
\* attempt fails it has made exactly MAX_RETRIES attempts when it returns, and
\* it returns the failure value; a successful attempt is always the last one
\* (no attempt follows the first success).
C8_RetryBudget ==
    /\ Len(calls) <= MAX_RETRIES
    /\ attempt = Len(calls)
    /\ (fpc = "returned" /\ \A i \in 1 .. Len(calls) : ~IsSuccess(calls[i]))
          => (Len(calls) = MAX_RETRIES /\ fetch_ret = None)
    /\ \A i \in 1 .. Len(calls) :
          IsSuccess(calls[i]) => (i = Len(calls) /\ fpc = "returned")

\* The endpoint failed on every attempt: three attempts, then the failure value.
C8_Witness ==
    /\ fpc = "returned"
    /\ Len(calls) = MAX_RETRIES
    /\ \A i \in 1 .. Len(calls) : ~IsSuccess(calls[i])
    /\ fetch_ret = None

\* C10: fetch_eligibility_html never raises to its caller; what it returns is
\* either the failure value or a non-empty markup string; it returns markup
\* iff one of the first MAX_RETRIES attempts succeeded, and the markup is the
\* payload of the first successful attempt.
C10_TypedResult ==
    /\ fpc # "raised"
    /\ fpc = "returned" =>
         /\ fetch_ret = None \/ fetch_ret \in Payloads
         /\ fetch_ret # ""
         /\ (fetch_ret # None) <=>
               (\E i \in 1 .. Len(calls) : i <= MAX_RETRIES /\ IsSuccess(calls[i]))
         /\ (fetch_ret # None) => fetch_ret = calls[FirstSuccess].criteria

\* Two failed attempts of different kinds (an empty criteria field, a missing
\* module), then a success whose payload is returned.
C10_Witness ==
    /\ fpc = "returned"
    /\ Len(calls) = 3
    /\ calls[1].net /\ calls[1].status = 200 /\ calls[1].criteria = ""
    /\ calls[2].net /\ calls[2].status = 200 /\ calls[2].module = "absent"
    /\ IsSuccess(calls[3])
    /\ fetch_ret = calls[3].criteria

(***************************************************************************)
(* Thread-pool batch mains                                                 *)
(***************************************************************************)
NumIds == 3

Workers == 2

Ids == 1 .. NumIds

Progs == {"batch_compare", "secondary", "download"}

\* All orders in which the identifiers can stand in the input list.
Perms(S) == {f \in [1 .. Cardinality(S) -> S] : \A i, j \in DOMAIN f : f[i] = f[j] => i = j}

Pos(i) == CHOOSE k \in DOMAIN nct_ids : nct_ids[k] = i

\* What extract_all_content_from_section yields for an identifier's page:
\* fixed per identifier, identifier 1 has two records and the others one.
SiteRecs(i) == IF i = 1 THEN <<[nctId |-> i, statement |-> "a"], [nctId |-> i, statement |-> "b"]>>
               ELSE <<[nctId |-> i, statement |-> "a"]>>

\* The dicts process_single returns, and the one main builds for a raised task.
FetchFailedResult(i) ==
    [nctId |-> i, status |-> "fetch_failed", site_docs |-> 0,
     has_site_records |-> FALSE, site_records |-> <<>>]

OkResult(i) ==
    [nctId |-> i, status |-> "ok", site_docs |-> Len(SiteRecs(i)),
     has_site_records |-> TRUE, site_records |-> SiteRecs(i)]

ErrorEntry(i) ==
    [nctId |-> i, status |-> "error", site_docs |-> 0,
     has_site_records |-> FALSE, site_records |-> <<>>]

\* st: the future's state; tried: the fetch strategies called so far, in
\* order; got: what each returned ("doc" or "none"); soup: the strategy whose
\* document the task holds; out: how the task ended.
QueuedTask == [st |-> "queued", tried |-> <<>>, got |-> <<>>, soup |-> "none", out |-> "none"]

Running == {i \in Ids : task[i].st = "running"}

\* executor.submit inside the dict comprehension: one call per element of
\* nct_ids, in list order.
Submit ==
    /\ mpc = "submit"
    /\ submitted < Len(nct_ids)
    /\ submitted' = submitted + 1
    /\ UNCHANGED <<prog, nct_ids, task, collected, results, combined, failed,
                   processed, mpc, out_summary, out_combined>>

\* The comprehension is complete; main enters the as_completed loop.
EnterLoop ==
    /\ mpc = "submit"
    /\ submitted = Len(nct_ids)
    /\ mpc' = "collect"
    /\ UNCHANGED <<prog, nct_ids, submitted, task, collected, results, combined,
                   failed, processed, out_summary, out_combined>>

\* ThreadPoolExecutor(max_workers=W): a work item leaves the FIFO queue only
\* when fewer than W worker threads are busy.
WorkerFree_Unbounded == TRUE

WorkerFree == Cardinality(Running) < Workers

\* A worker thread takes the oldest queued work item and starts its task.
TaskStart(i) ==
    /\ prog \in Progs
    /\ task[i].st = "queued"
    /\ Pos(i) <= submitted
    /\ \A j \in Ids : Pos(j) < Pos(i) => task[j].st # "queued"
    /\ WorkerFree
    /\ task' = [task EXCEPT ![i].st = "running"]
    /\ UNCHANGED <<prog, nct_ids, submitted, collected, results, combined, failed,
                   processed, mpc, out_summary, out_combined>>

\* process_single: session = session_factory(); soup = fetch_via_api(...)
ProcessSingleApi(i) ==
    /\ prog = "batch_compare"
    /\ task[i].st = "running"
    /\ task[i].tried = <<>>
    /\ \E r \in {"doc", "none"} :
         task' = [task EXCEPT ![i].tried = <<"api">>, ![i].got = <<r>>,
                              ![i].soup = IF r = "doc" THEN "api" ELSE "none"]
    /\ UNCHANGED <<prog, nct_ids, submitted, collected, results, combined, failed,
                   processed, mpc, out_summary, out_combined>>

\* if not soup: soup = fetch_page(...)
NeedsPage_Always(t) == t.tried = <<"api">>

NeedsPage(t) == t.tried = <<"api">> /\ t.soup = "none"

\* The fallback fetch; when it fails too the task returns the fetch_failed dict.
ProcessSinglePage(i) ==
    /\ prog = "batch_compare"
    /\ task[i].st = "running"
    /\ NeedsPage(task[i])
    /\ \E r \in {"doc", "none"} :
         IF r = "none"
         THEN task' = [task EXCEPT ![i].tried = Append(@, "page"), ![i].got = Append(@, r),
                                   ![i].soup = "none",
                                   ![i].st = "done", ![i].out = "fetch_failed"]
         ELSE task' = [task EXCEPT ![i].tried = Append(@, "page"), ![i].got = Append(@, r),
                                   ![i].soup = "page"]
    /\ UNCHANGED <<prog, nct_ids, submitted, collected, results, combined, failed,
                   processed, mpc, out_summary, out_combined>>

\* The rest of process_single: find_section, extraction, compare_sets, the
\* optional detail files, the result dict.  Extraction or a file write may raise.
ProcessSingleRest(i) ==
    /\ prog = "batch_compare"
    /\ task[i].st = "running"
    /\ task[i].soup # "none"
    /\ ~NeedsPage(task[i])
    /\ \E o \in {"ok", "raised"} :
         task' = [task EXCEPT ![i].st = "done", ![i].out = o]
    /\ UNCHANGED <<prog, nct_ids, submitted, collected, results, combined, failed,
                   processed, mpc, out_summary, out_combined>>

\* process_nct_id: fetch_secondary_outcomes_direct returns outcomes, returns
\* nothing, or raises.
ProcessNctId(i) ==
    /\ prog = "secondary"
    /\ task[i].st = "running"
    /\ \E o \in {"ok", "empty", "raised"} :
         task' = [task EXCEPT ![i].st = "done", ![i].out = o]
    /\ UNCHANGED <<prog, nct_ids, submitted, collected, results, combined, failed,
                   processed, mpc, out_summary, out_combined>>

\* download_one: the whole body sits in try/except Exception, so a failure
\* becomes the returned error dict.
DownloadOne(i) ==
    /\ prog = "download"
    /\ task[i].st = "running"
    /\ \E o \in {"success", "error"} :
         task' = [task EXCEPT ![i].st = "done", ![i].out = o]
    /\ UNCHANGED <<prog, nct_ids, submitted, collected, results, combined, failed,
                   processed, mpc, out_summary, out_combined>>

\* What future.result() gives main for a finished batch_compare task.
FutureResult(i) == IF task[i].out = "ok" THEN OkResult(i) ELSE FetchFailedResult(i)

\* Whether the loop body of a main wraps future.result() in try/except
\* Exception: batch_compare_ncts and the secondary-outcomes batch do, the
\* download main does not.
LoopCatches_Nowhere(p) == FALSE

LoopCatches(p) == p \in {"batch_compare", "secondary"}

\* The except branch of the batch_compare loop: an entry for the raised task.
OnRaised_Dropped(i) == results

OnRaised(i) == Append(results, ErrorEntry(i))

\* The try branch of the batch_compare loop: results.append(res) and, when the
\* result carries site records, combined_site_records.extend(...).
OnResult_CombineOnly(i) == results

OnResult(i) == Append(results, FutureResult(i))

\* as_completed yields a finished future that it has not yielded yet.
Yielded_AnyFuture(i) ==
    /\ mpc = "collect"
    /\ i \notin collected

Yielded(i) ==
    /\ mpc = "collect"
    /\ task[i].st = "done"
    /\ i \notin collected

\* One iteration of the batch_compare_ncts loop (lines 209-231).
CollectCompare(i) ==
    /\ prog = "batch_compare"
    /\ Yielded(i)
    /\ collected' = collected \cup {i}
    /\ IF task[i].out = "raised"
       THEN IF LoopCatches(prog)
            THEN /\ results' = OnRaised(i)
                 /\ UNCHANGED <<combined, mpc>>
            ELSE /\ mpc' = "aborted"
                 /\ UNCHANGED <<results, combined>>
       ELSE /\ results' = OnResult(i)
            /\ combined' = IF FutureResult(i).has_site_records
                           THEN combined \o FutureResult(i).site_records
                           ELSE combined
            /\ UNCHANGED mpc
    /\ UNCHANGED <<prog, nct_ids, submitted, task, failed, processed,
                   out_summary, out_combined>>

\* One iteration of the secondary-outcomes loop (lines 76-92).
CollectSecondary(i) ==
    /\ prog = "secondary"
    /\ Yielded(i)
    /\ collected' = collected \cup {i}
    /\ IF task[i].out = "raised" /\ ~LoopCatches(prog)
       THEN /\ mpc' = "aborted"
            /\ UNCHANGED <<combined, failed, processed>>
       ELSE /\ IF task[i].out = "ok"
               THEN /\ combined' = combined \o SiteRecs(i)
                    /\ UNCHANGED failed
               ELSE /\ failed' = Append(failed, i)
                    /\ UNCHANGED combined
            /\ processed' = processed + 1
            /\ UNCHANGED mpc
    /\ UNCHANGED <<prog, nct_ids, submitted, task, results,
                   out_summary, out_combined>>

\* One iteration of the download loop (lines 120-126): future.result() is not
\* guarded, so a raised task would end main.
CollectDownload(i) ==
    /\ prog = "download"
    /\ Yielded(i)
    /\ collected' = collected \cup {i}
    /\ IF task[i].out = "raised" /\ ~LoopCatches(prog)
       THEN /\ mpc' = "aborted"
            /\ UNCHANGED <<results, processed>>
       ELSE /\ results' = Append(results, [nctId |-> i, status |-> task[i].out,
                                           site_docs |-> 0, has_site_records |-> FALSE,
                                           site_records |-> <<>>])
            /\ processed' = processed + 1
            /\ mpc' = mpc
    /\ UNCHANGED <<prog, nct_ids, submitted, task, combined, failed,
                   out_summary, out_combined>>

\* The with block ends when as_completed is exhausted: every future has
\* been yielded, so every task is done (shutdown(wait=True) has nothing left
\* to wait for).
AsCompletedExhausted_FirstResult == collected # {}

AsCompletedExhausted ==
    /\ collected = {nct_ids[k] : k \in 1 .. submitted}
    /\ \A i \in Ids : task[i].st = "done"

ExitPool ==
    /\ mpc = "collect"
    /\ AsCompletedExhausted
    /\ mpc' = "drained"
    /\ UNCHANGED <<prog, nct_ids, submitted, task, collected, results, combined,
                   failed, processed, out_summary, out_combined>>

\* After the pool: the summary / results CSV and the combined JSON are written.
WriteReports ==
    /\ mpc = "drained"
    /\ out_summary' = results
    /\ out_combined' = combined
    /\ mpc' = "written"
    /\ UNCHANGED <<prog, nct_ids, submitted, task, collected, results, combined,
                   failed, processed>>

BatchInit ==
    /\ prog \in Progs
    /\ nct_ids \in Perms(Ids)
    /\ submitted = 0
    /\ task = [i \in Ids |-> QueuedTask]
    /\ collected = {}
    /\ results = <<>>
    /\ combined = <<>>
    /\ failed = <<>>
    /\ processed = 0
    /\ mpc = "submit"
    /\ out_summary = <<>>
    /\ out_combined = <<>>

BatchIdle ==
    /\ prog = "idle"
    /\ nct_ids = <<>>
    /\ submitted = 0
    /\ task = <<>>
    /\ collected = {}
    /\ results = <<>>
    /\ combined = <<>>
    /\ failed = <<>>
    /\ processed = 0
    /\ mpc = "idle"
    /\ out_summary = <<>>
    /\ out_combined = <<>>

BatchNext ==
    \/ Submit /\ UNCHANGED notBatch
    \/ EnterLoop /\ UNCHANGED notBatch
    \/ \E i \in Ids : TaskStart(i) /\ UNCHANGED notBatch
    \/ \E i \in Ids : ProcessSingleApi(i) /\ UNCHANGED notBatch
    \/ \E i \in Ids : ProcessSinglePage(i) /\ UNCHANGED notBatch
    \/ \E i \in Ids : ProcessSingleRest(i) /\ UNCHANGED notBatch
    \/ \E i \in Ids : ProcessNctId(i) /\ UNCHANGED notBatch
    \/ \E i \in Ids : DownloadOne(i) /\ UNCHANGED notBatch
    \/ \E i \in Ids : CollectCompare(i) /\ UNCHANGED notBatch
    \/ \E i \in Ids : CollectSecondary(i) /\ UNCHANGED notBatch
    \/ \E i \in Ids : CollectDownload(i) /\ UNCHANGED notBatch
    \/ ExitPool /\ UNCHANGED notBatch
    \/ WriteReports /\ UNCHANGED notBatch

(***************************************************************************)
(* Claims about the thread-pool batch mains                                *)
(***************************************************************************)
PoolDrained == mpc \in {"drained", "written"}

\* The entry an identifier's task outcome calls for in the batch_compare report.
EntryOf(i) ==
    CASE task[i].out = "ok" -> OkResult(i)
      [] task[i].out = "fetch_failed" -> FetchFailedResult(i)
      [] task[i].out = "raised" -> ErrorEntry(i)
      [] OTHER -> [nctId |-> i, status |-> "unfinished", site_docs |-> 0,
                   has_site_records |-> FALSE, site_records |-> <<>>]

RowsOf(rows, i) == {k \in DOMAIN rows : rows[k].nctId = i}

RowsWithStatus(rows, st) == {k \in DOMAIN rows : rows[k].status = st}

\* C3: in batch_compare_ncts.main, once the pool has drained, results holds
\* exactly one entry for every dispatched identifier, and each entry is a
\* success (ok) or a failure (fetch_failed, error) as that identifier's task
\* ended; the successes and failures add up to the number of identifiers.
C3_OneEntryPerIdentifier ==
    (prog = "batch_compare" /\ PoolDrained) =>
        /\ Len(results) = Len(nct_ids)
        /\ \A i \in Ids :
             /\ Cardinality(RowsOf(results, i)) = 1
             /\ \A k \in RowsOf(results, i) :
                  /\ results[k].status \in {"ok", "fetch_failed", "error"}
                  /\ results[k].status = EntryOf(i).status
        /\ Cardinality(RowsWithStatus(results, "ok"))
             = Cardinality({i \in Ids : task[i].out = "ok"})
        /\ Cardinality(RowsWithStatus(results, "fetch_failed"))
             = Cardinality({i \in Ids : task[i].out = "fetch_failed"})
        /\ Cardinality(RowsWithStatus(results, "error"))
             = Cardinality({i \in Ids : task[i].out = "raised"})

\* Two identifiers failed their fetch, the rest succeeded, the pool drained.
C3_Witness ==
    /\ prog = "batch_compare"
    /\ PoolDrained
    /\ Cardinality(RowsWithStatus(results, "fetch_failed")) = 2
    /\ Cardinality(RowsWithStatus(results, "ok")) = Len(nct_ids) - 2
    /\ Len(results) = Len(nct_ids)

\* How a failed task must be recorded, per main.
RecordedAgainst(i) ==
    CASE prog = "batch_compare" ->
            /\ Cardinality(RowsOf(results, i)) = 1
            /\ \A k \in RowsOf(results, i) : results[k] = EntryOf(i)
      [] prog = "secondary" ->
            IF task[i].out = "ok"
            THEN /\ \A k \in DOMAIN failed : failed[k] # i
                 /\ \E k \in DOMAIN combined : combined[k].nctId = i
            ELSE /\ Cardinality({k \in DOMAIN failed : failed[k] = i}) = 1
                 /\ \A k \in DOMAIN combined : combined[k].nctId # i
      [] prog = "download" ->
            /\ Cardinality(RowsOf(results, i)) = 1
            /\ \A k \in RowsOf(results, i) : results[k].status = task[i].out
      [] OTHER -> TRUE

\* C5: a fetch failure or an exception in one identifier's task is recorded
\* against that identifier only; it never ends the collection loop (main is
\* never aborted, and while the pool has not drained some step is always
\* possible), and at drain every task has finished and every identifier is
\* recorded with its own outcome.
C5_FailureIsolation ==
    /\ mpc # "aborted"
    /\ mpc \in {"submit", "collect"} => ENABLED BatchNext
    /\ \A i \in collected : task[i].st = "done" /\ RecordedAgainst(i)
    /\ PoolDrained =>
         /\ collected = Ids
         /\ prog \in {"secondary", "download"} => processed = Len(nct_ids)

\* One task raised, another failed its fetch, a third succeeded, all recorded.
C5_Witness ==
    /\ prog = "batch_compare"
    /\ PoolDrained
    /\ \E i, j, k \in Ids :
         /\ task[i].out = "raised"
         /\ task[j].out = "fetch_failed"
         /\ task[k].out = "ok"

\* C6: one task is dispatched per identifier of the list, and at no time are
\* more than Workers tasks started and not yet finished, although there are
\* more identifiers than workers.
C6_BoundedConcurrency ==
    /\ Cardinality(Running) <= Workers
    /\ submitted <= Len(nct_ids)
    /\ mpc # "submit" => submitted = Len(nct_ids)
    /\ \A i \in Ids : task[i].st # "queued" => Pos(i) <= submitted
    /\ \A i, j \in Ids :
         (Pos(i) < Pos(j) /\ task[j].st # "queued") => task[i].st # "queued"

\* The pool is full and a submitted task waits in the queue.
C6_Witness ==
    /\ Len(nct_ids) > Workers
    /\ Cardinality(Running) = Workers
    /\ \E i \in Ids : task[i].st = "queued" /\ Pos(i) <= submitted

\* The report of the run that dispatches the identifiers in ascending order
\* and whose tasks complete in that order.
RECURSIVE ConcatRecords(_, _)
ConcatRecords(rows, n) ==
    IF n = 0 THEN <<>>
    ELSE ConcatRecords(rows, n - 1) \o rows[n].site_records

RefSummary == [k \in 1 .. NumIds |-> EntryOf(k)]

RefCombined == ConcatRecords(RefSummary, NumIds)

\* C7 as stated: the written summary and combined output are the same for
\* every dispatch order and completion order, that is, equal to those of the
\* ascending in-order run with the same per-identifier outcomes.
C7_SameReportEveryOrder ==
    (prog = "batch_compare" /\ mpc = "written") =>
        /\ out_summary = RefSummary
        /\ out_combined = RefCombined

\* C7 (amended): for fixed per-identifier outcomes the written report holds
\* the same entries for every dispatch and completion order: exactly one
\* summary row per identifier, equal to that identifier's entry, and the
\* combined output is the site records of the rows, block by block in row
\* order; only the order of rows and blocks (the completion order) varies.
C7_SameEntriesAnyOrder ==
    (prog = "batch_compare" /\ mpc = "written") =>
        /\ Len(out_summary) = NumIds
        /\ \A i \in Ids : \E k \in DOMAIN out_summary : out_summary[k] = EntryOf(i)
        /\ out_combined = ConcatRecords(out_summary, Len(out_summary))
        /\ Len(out_combined) = Len(RefCombined)

\* A written report whose rows are not in ascending identifier order.
C7_Witness ==
    /\ prog = "batch_compare"
    /\ mpc = "written"
    /\ \A i \in Ids : task[i].out = "ok"
    /\ out_summary[1].nctId = NumIds
    /\ out_summary # RefSummary

\* C9: in process_single the API strategy is always the first one called;
\* the page strategy is called iff the API strategy returned no document; the
\* document used for extraction is the one of the first strategy that
\* returned one; fetch_failed is returned only after both were called and
\* both returned nothing.
C9_StrategyOrder ==
    prog = "batch_compare" =>
      \A i \in Ids :
        LET t == task[i] IN
        /\ t.tried \in {<<>>, <<"api">>, <<"api", "page">>}
        /\ Len(t.got) = Len(t.tried)
        /\ "page" \in {t.tried[k] : k \in DOMAIN t.tried} => t.got[1] = "none"
        /\ t.st = "done" =>
             ((t.tried = <<"api", "page">>) <=> (t.got[1] = "none"))
        /\ t.soup = "api" => (t.tried = <<"api">> /\ t.got = <<"doc">>)
        /\ t.soup = "page" => (t.tried = <<"api", "page">> /\ t.got = <<"none", "doc">>)
        /\ t.out \in {"ok", "raised"} => t.soup \in {"api", "page"}
        /\ t.out = "fetch_failed" =>
             (t.tried = <<"api", "page">> /\ t.got = <<"none", "none">> /\ t.soup = "none")

\* A task whose API fetch returned nothing and whose page fetch succeeded.
C9_Witness ==
    /\ prog = "batch_compare"
    /\ \E i \in Ids :
         /\ task[i].out = "ok"
         /\ task[i].tried = <<"api", "page">>
         /\ task[i].soup = "page"
    /\ \E j \in Ids : task[j].out = "fetch_failed"

(***************************************************************************)
(* Documents                                                               *)
(*                                                                         *)
(* A parsed document is the sequence of its nodes in document order, each  *)
(* with its depth below the root (the BeautifulSoup object, or the         *)
(* criteria section): the children of the root have depth 1.  A text node  *)
(* (NavigableString) has tag "#text" and carries its words.  Node 0 stands *)
(* for the root itself, and for None where a node is looked up.            *)
(***************************************************************************)
MaxNodes == 4

ListTags == {"ol", "ul"}

DESC_ID == "eligibility-criteria-description"

INCL_ID == "eligibility-criteria-inclusion"

EXCL_ID == "eligibility-criteria-exclusion"

Tag(name) == [tag |-> name, id |-> "", text |-> <<>>]

Div(id) == [tag |-> "div", id |-> id, text |-> <<>>]

Text(words) == [tag |-> "#text", id |-> "", text |-> words]

\* The node kinds documents are built from.  The API markup carries no ids.
ApiKinds ==
    {Tag("p"), Tag("ol"), Tag("ul"),
     Text(<<"Inclusion", "Criteria">>), Text(<<"exclusion", "criteria">>)}

PageKinds == ApiKinds \cup {Div(DESC_ID), Div(INCL_ID), Div(EXCL_ID)}

At(kind, depth) == [tag |-> kind.tag, id |-> kind.id, text |-> kind.text, depth |-> depth]

IsText(d, i) == d[i].tag = "#text"

DepthOf(d, i) == IF i = 0 THEN 0 ELSE d[i].depth

\* The nodes that may follow d as its next node: a text node has no
\* children, a parser never leaves two text nodes side by side, and an id
\* occurs once in a document.
PrevSibling(d, depth) ==
    LET S == {j \in DOMAIN d : d[j].depth = depth
                               /\ \A k \in j .. Len(d) : d[k].depth >= depth}
    IN  IF S = {} THEN 0 ELSE CHOOSE j \in S : \A k \in S : k <= j

Extensions(d, kinds) ==
    LET maxDepth == IF d = <<>> THEN 1
                    ELSE IF IsText(d, Len(d)) THEN d[Len(d)].depth
                    ELSE d[Len(d)].depth + 1
    IN  {n \in {At(k, dp) : k \in kinds, dp \in 1 .. maxDepth} :
            /\ n.tag = "#text" =>
                  \/ PrevSibling(d, n.depth) = 0
                  \/ ~IsText(d, PrevSibling(d, n.depth))
            /\ n.id # "" => \A j \in DOMAIN d : d[j].id # n.id}

\* Two larger layouts that are read in full: both headings before a single
\* list, and the usual heading / list / heading / list.
BothHeadingsOneList ==
    <<At(Tag("p"), 1), At(Text(<<"Inclusion", "Criteria">>), 2),
      At(Tag("p"), 1), At(Text(<<"exclusion", "criteria">>), 2),
      At(Tag("ol"), 1)>>

HeadingListTwice ==
    <<At(Tag("p"), 1), At(Text(<<"Inclusion", "Criteria">>), 2), At(Tag("ol"), 1),
      At(Tag("p"), 1), At(Text(<<"exclusion", "criteria">>), 2), At(Tag("ul"), 1)>>

IsPrefix(a, b) == Len(a) <= Len(b) /\ \A k \in DOMAIN a : a[k] = b[k]

\* The documents read: every document of at most MaxNodes nodes, and the two
\* layouts above.
InScope(d) ==
    \/ Len(d) <= MaxNodes
    \/ IsPrefix(d, BothHeadingsOneList)
    \/ IsPrefix(d, HeadingListTwice)

KindsOf(v) == IF v = "page" THEN PageKinds ELSE ApiKinds

\* BeautifulSoup(markup, "html.parser"): the parser reads the next node.
ParseNode ==
    /\ lpc = "parse"
    /\ \E x \in Extensions(doc, KindsOf(variant)) :
         /\ InScope(Append(doc, x))
         /\ doc' = Append(doc, x)
    /\ UNCHANGED <<variant, lpc, inclusion_list, exclusion_list, consulted>>

(***************************************************************************)
(* Tree navigation (the BeautifulSoup calls the locator makes)             *)
(***************************************************************************)
First(S) == IF S = {} THEN 0 ELSE CHOOSE i \in S : \A j \in S : i <= j

\* The descendants of node r; of the root when r = 0.
Descendants(d, r) ==
    IF r = 0 THEN DOMAIN d
    ELSE {j \in (r + 1) .. Len(d) : \A k \in (r + 1) .. j : d[k].depth > d[r].depth}

Children(d, r) == {j \in Descendants(d, r) : d[j].depth = DepthOf(d, r) + 1}

\* node.parent
Parent(d, i) ==
    LET S == {j \in 1 .. (i - 1) : d[j].depth = d[i].depth - 1} IN
    IF S = {} THEN 0 ELSE CHOOSE j \in S : \A k \in S : k <= j

\* tag.string: the text of a tag's only child, looked up through only children.
NoString == [some |-> FALSE, text |-> <<>>]

RECURSIVE StringOf(_, _)
StringOf(d, i) ==
    LET ch == Children(d, i) IN
    IF Cardinality(ch) # 1 THEN NoString
    ELSE LET c == First(ch) IN
         IF IsText(d, c) THEN [some |-> TRUE, text |-> d[c].text]
         ELSE StringOf(d, c)

\* re.I
Lower(w) ==
    CASE w = "Inclusion" -> "inclusion"
      [] w = "Exclusion" -> "exclusion"
      [] w = "Criteria" -> "criteria"
      [] OTHER -> w

\* re.search(r"Inclusion\s+Criteria", t.strip(), re.I), section = the first word
Matches(section, words) ==
    \E k \in 1 .. (Len(words) - 1) :
        Lower(words[k]) = section /\ Lower(words[k + 1]) = "criteria"

\* sib.find_next_sibling(): the next sibling that is a tag
NextSiblingTag(d, i) ==
    IF i = 0 THEN 0
    ELSE First({j \in (i + 1) .. Len(d) :
                   /\ d[j].depth = d[i].depth
                   /\ ~IsText(d, j)
                   /\ \A k \in (i + 1) .. j : d[k].depth >= d[i].depth})

\* The while loop of _find_list_after_heading: forward over the sibling tags
\* to the first ol/ul.
ScanSiblings_NextOnly(d, sib) ==
    LET nxt == NextSiblingTag(d, sib) IN
    IF nxt # 0 /\ d[nxt].tag \in ListTags THEN nxt ELSE 0

RECURSIVE ScanSiblings(_, _)
ScanSiblings(d, sib) ==
    LET nxt == NextSiblingTag(d, sib) IN
    IF nxt = 0 THEN 0
    ELSE IF d[nxt].tag \in ListTags THEN nxt
    ELSE ScanSiblings(d, nxt)

\* criteria_section.find("div", {"id": id})
FindDiv(d, id) == First({i \in DOMAIN d : d[i].tag = "div" /\ d[i].id = id})

\* node.find(["ol", "ul"]) and node.find_all(["ol", "ul"])
ListsIn(d, r) == {i \in Descendants(d, r) : d[i].tag \in ListTags}

FirstList(d, r) == First(ListsIn(d, r))

SecondList(d, r) == First(ListsIn(d, r) \ {FirstList(d, r)})

(***************************************************************************)
(* find_inclusion_exclusion_lists (the page variant)                       *)
(***************************************************************************)
\* desc_div if desc_div else criteria_section
SearchRoot(d) == FindDiv(d, DESC_ID)

\* _find_list_after_heading(root, pattern): the first tag under root whose
\* .string matches, then its following siblings.
PageListAfterHeading(d, root, section) ==
    LET heading == First({i \in Descendants(d, root) :
                             /\ ~IsText(d, i)
                             /\ StringOf(d, i).some
                             /\ Matches(section, StringOf(d, i).text)})
    IN  IF heading = 0 THEN 0 ELSE ScanSiblings(d, heading)

\* incl_div.find(["ol", "ul"]) or incl_div, None when there is no such div
ContainerRoot_ListOnly(d, id) ==
    LET div == FindDiv(d, id) IN
    IF div = 0 THEN 0 ELSE FirstList(d, div)

ContainerRoot(d, id) ==
    LET div == FindDiv(d, id) IN
    IF div = 0 THEN 0
    ELSE IF FirstList(d, div) # 0 THEN FirstList(d, div)
    ELSE div

Note(c, section, tier) == [c EXCEPT ![section] = Append(@, tier)]

\* Lines 46-73: the search root and the two heading scans.
PageHeadingScan ==
    /\ variant = "page"
    /\ lpc = "parse"
    /\ inclusion_list' = PageListAfterHeading(doc, SearchRoot(doc), "inclusion")
    /\ exclusion_list' = PageListAfterHeading(doc, SearchRoot(doc), "exclusion")
    /\ consulted' = Note(Note(consulted, "Inclusion", "heading"), "Exclusion", "heading")
    /\ lpc' = "scanned"
    /\ UNCHANGED <<variant, doc>>

\* if criteria_section and inclusion_list is None: the section container is
\* looked up only for a section the heading scan left unresolved.
NeedsContainer_Always(root) == TRUE

NeedsContainer(root) == root = 0

\* Lines 75-84: the per-section containers of older pages.
PageContainers ==
    /\ variant = "page"
    /\ lpc = "scanned"
    /\ inclusion_list' = IF NeedsContainer(inclusion_list)
                         THEN ContainerRoot(doc, INCL_ID) ELSE inclusion_list
    /\ exclusion_list' = IF NeedsContainer(exclusion_list)
                         THEN ContainerRoot(doc, EXCL_ID) ELSE exclusion_list
    /\ consulted' =
         LET c1 == IF NeedsContainer(inclusion_list)
                   THEN Note(consulted, "Inclusion", "container") ELSE consulted
         IN  IF NeedsContainer(exclusion_list)
             THEN Note(c1, "Exclusion", "container") ELSE c1
    /\ lpc' = "legacy"
    /\ UNCHANGED <<variant, doc>>

\* The positional fallback shared by both variants: the first list for an
\* unresolved Inclusion, the second for an unresolved Exclusion.
FallbackInclusion_None(d, root, incl) == incl

FallbackExclusion_Overwrite(d, root, excl) == SecondList(d, root)

FallbackInclusion(d, root, incl) ==
    IF incl = 0 /\ FirstList(d, root) # 0 THEN FirstList(d, root) ELSE incl

FallbackExclusion(d, root, excl) ==
    IF excl = 0 /\ SecondList(d, root) # 0 THEN SecondList(d, root) ELSE excl

FallbackNotes(c, incl, excl) ==
    LET c1 == IF incl = 0 THEN Note(c, "Inclusion", "positional") ELSE c
    IN  IF excl = 0 THEN Note(c1, "Exclusion", "positional") ELSE c1

\* Lines 86-95: the last resort, then the return.
PageFallback ==
    /\ variant = "page"
    /\ lpc = "legacy"
    /\ IF inclusion_list = 0 \/ exclusion_list = 0
       THEN /\ inclusion_list' = FallbackInclusion(doc, SearchRoot(doc), inclusion_list)
            /\ exclusion_list' = FallbackExclusion(doc, SearchRoot(doc), exclusion_list)
            /\ consulted' = FallbackNotes(consulted, inclusion_list, exclusion_list)
       ELSE UNCHANGED <<inclusion_list, exclusion_list, consulted>>
    /\ lpc' = "done"
    /\ UNCHANGED <<variant, doc>>

(***************************************************************************)
(* find_inclusion_exclusion_lists_from_html (the API variant)              *)
(***************************************************************************)
\* _find_list_after_heading(pattern): the first matching string of the
\* document, its parent, then the parent's following siblings.
ApiListAfterHeading(d, section) ==
    LET heading == First({i \in DOMAIN d : IsText(d, i) /\ Matches(section, d[i].text)})
    IN  IF heading = 0 THEN 0 ELSE ScanSiblings(d, Parent(d, heading))

\* Lines 96-116.
ApiHeadingScan ==
    /\ variant = "api"
    /\ lpc = "parse"
    /\ inclusion_list' = ApiListAfterHeading(doc, "inclusion")
    /\ exclusion_list' = ApiListAfterHeading(doc, "exclusion")
    /\ consulted' = Note(Note(consulted, "Inclusion", "heading"), "Exclusion", "heading")
    /\ lpc' = "scanned"
    /\ UNCHANGED <<variant, doc>>

\* Lines 118-127.
ApiFallback ==
    /\ variant = "api"
    /\ lpc = "scanned"
    /\ IF inclusion_list = 0 \/ exclusion_list = 0
       THEN /\ inclusion_list' = FallbackInclusion(doc, 0, inclusion_list)
            /\ exclusion_list' = FallbackExclusion(doc, 0, exclusion_list)
            /\ consulted' = FallbackNotes(consulted, inclusion_list, exclusion_list)
       ELSE UNCHANGED <<inclusion_list, exclusion_list, consulted>>
    /\ lpc' = "done"
    /\ UNCHANGED <<variant, doc>>

LocInit ==
    /\ variant \in {"page", "api"}
    /\ doc = <<>>
    /\ lpc = "parse"
    /\ inclusion_list = 0
    /\ exclusion_list = 0
    /\ consulted = [Inclusion |-> <<>>, Exclusion |-> <<>>]

LocIdle ==
    /\ variant = "idle"
    /\ doc = <<>>
    /\ lpc = "idle"
    /\ inclusion_list = 0
    /\ exclusion_list = 0
    /\ consulted = [Inclusion |-> <<>>, Exclusion |-> <<>>]

LocNext ==
    \/ ParseNode /\ UNCHANGED notLoc
    \/ PageHeadingScan /\ UNCHANGED notLoc
    \/ PageContainers /\ UNCHANGED notLoc
    \/ PageFallback /\ UNCHANGED notLoc
    \/ ApiHeadingScan /\ UNCHANGED notLoc
    \/ ApiFallback /\ UNCHANGED notLoc

(***************************************************************************)
(* Claims about the locator                                                *)
(***************************************************************************)
\* C1: the locator never returns the same list node as both the Inclusion
\* root and the Exclusion root: when both are present they are distinct.
C1_DistinctRoots ==
    lpc = "done" =>
        \/ inclusion_list = 0
        \/ exclusion_list = 0
        \/ inclusion_list # exclusion_list

SectionId(section) == IF section = "Inclusion" THEN INCL_ID ELSE EXCL_ID

SectionWord(section) == IF section = "Inclusion" THEN "inclusion" ELSE "exclusion"

RootOf(section) == IF section = "Inclusion" THEN inclusion_list ELSE exclusion_list

\* What each tier of the page variant yields for a section, taken alone.
HeadingTier(section) == PageListAfterHeading(doc, SearchRoot(doc), SectionWord(section))

ContainerTier(section) == ContainerRoot(doc, SectionId(section))

PositionalTier(section) ==
    IF section = "Inclusion" THEN FirstList(doc, SearchRoot(doc))
    ELSE SecondList(doc, SearchRoot(doc))

\* C2 as stated: when the section's container exists the root is taken from
\* it and the heading scan is never consulted for that section; the tiers
\* run in the order container, heading, positional.
C2_ContainerBeforeHeading ==
    (variant = "page" /\ lpc = "done") =>
        \A section \in {"Inclusion", "Exclusion"} :
            FindDiv(doc, SectionId(section)) # 0 =>
                /\ RootOf(section) = ContainerTier(section)
                /\ \A k \in DOMAIN consulted[section] :
                       consulted[section][k] # "heading"
                /\ IsPrefix(consulted[section], <<"container", "heading", "positional">>)

\* C2 (amended): in find_inclusion_exclusion_lists the tiers are evaluated
\* per section in the order heading scan, section container, positional
\* fallback; the heading scan is always consulted, a later tier only while
\* the section is unresolved, and the root is what the first matching
\* tier yields: a section container supplies the root only when the heading
\* scan found no list for that section.
C2_HeadingBeforeContainer ==
    variant = "page" =>
        \A section \in {"Inclusion", "Exclusion"} :
            LET c == consulted[section]
                H == HeadingTier(section)
                C == ContainerTier(section)
                P == PositionalTier(section)
            IN  /\ IsPrefix(c, <<"heading", "container", "positional">>)
                /\ lpc = "done" =>
                     /\ Len(c) >= 1
                     /\ (Len(c) = 1) <=> (H # 0)
                     /\ (Len(c) = 2) <=> (H = 0 /\ C # 0)
                     /\ (Len(c) = 3) <=> (H = 0 /\ C = 0)
                     /\ RootOf(section) = IF H # 0 THEN H ELSE IF C # 0 THEN C ELSE P

\* The Inclusion container exists, the heading scan found a list elsewhere,
\* and that list is the root.
C2_Witness ==
    /\ variant = "page"
    /\ lpc = "done"
    /\ FindDiv(doc, INCL_ID) # 0
    /\ HeadingTier("Inclusion") # 0
    /\ HeadingTier("Inclusion") # ContainerTier("Inclusion")
    /\ inclusion_list = HeadingTier("Inclusion")
    /\ consulted["Inclusion"] = <<"heading">>

(***************************************************************************)
(* The sequential batch mains                                              *)
(***************************************************************************)
\* What analyze_list returns for a section: the counts and the compound
\* statements (the atomic ones are only counted by main).
Res(correct, incorrect) ==
    [correct_count |-> correct, incorrect_count |-> Len(incorrect), incorrect |-> incorrect]

InclusionResults == {Res(0, <<>>), Res(2, <<"age 18 or older: a, b">>)}

ExclusionResults == {Res(0, <<>>), Res(2, <<>>), Res(0, <<"any of: c, d">>)}

\* How the fetch-and-analyse part of one iteration can end.  automation_api:
\* fetch_eligibility_html returned None, or markup that is then analysed.
\* dynamic_eligibility_checker: fetch_and_analyze_nct returned None (no
\* criteria section, or an exception it caught), or the two results.
Failed(kind) == [kind |-> kind, inc |-> Res(0, <<>>), exc |-> Res(0, <<>>)]

Outcomes(p) ==
    {[kind |-> "ok", inc |-> i, exc |-> e] : i \in InclusionResults, e \in ExclusionResults}
    \cup (IF p = "api_main" THEN {Failed("fetch_failed")}
          ELSE {Failed("no_section"), Failed("exception")})

RECURSIVE IncorrectRows(_, _, _, _)
IncorrectRows(nct, type, texts, n) ==
    IF n = 0 THEN <<>>
    ELSE Append(IncorrectRows(nct, type, texts, n - 1),
                [nctId |-> nct, type |-> type, statement |-> texts[n]])

\* The row main appends for an analysed identifier.
ResultRow_CorrectOnly(nct, o) ==
    LET total_correct == o.inc.correct_count + o.exc.correct_count
        total_incorrect == o.inc.incorrect_count + o.exc.incorrect_count
    IN  [nctId |-> nct,
         total_statements |-> total_correct,
         correct_statements |-> total_correct,
         incorrect_statements |-> total_incorrect]

ResultRow(nct, o) ==
    LET total_correct == o.inc.correct_count + o.exc.correct_count
        total_incorrect == o.inc.incorrect_count + o.exc.incorrect_count
    IN  [nctId |-> nct,
         total_statements |-> total_correct + total_incorrect,
         correct_statements |-> total_correct,
         incorrect_statements |-> total_incorrect]

\* all_rows after one iteration: `continue` on a failure, else the append.
RowsAfter_NoContinue(rows, nct, o) == Append(rows, ResultRow(nct, o))

RowsAfter(rows, nct, o) ==
    IF o.kind # "ok" THEN rows ELSE Append(rows, ResultRow(nct, o))

\* One iteration of the for loop over nct_ids.
SeqIteration ==
    /\ spc = "loop"
    /\ Len(done_ids) < Len(seq_ids)
    /\ \E o \in Outcomes(seq_prog) :
         LET nct == seq_ids[Len(done_ids) + 1] IN
         /\ done_ids' = Append(done_ids, o)
         /\ all_rows' = RowsAfter(all_rows, nct, o)
         /\ incorrect_rows' =
              IF o.kind # "ok" THEN incorrect_rows
              ELSE incorrect_rows
                   \o IncorrectRows(nct, "Inclusion", o.inc.incorrect, Len(o.inc.incorrect))
                   \o IncorrectRows(nct, "Exclusion", o.exc.incorrect, Len(o.exc.incorrect))
         /\ per_id_times' = IF seq_prog = "api_main" THEN Append(per_id_times, nct)
                            ELSE per_id_times
    /\ UNCHANGED <<seq_prog, seq_ids, spc, written, results_csv, incorrect_csv,
                   timing_csv, summary_csv>>

\* if not nct_ids: print the error and return.
SeqNoIds ==
    /\ spc = "loop"
    /\ seq_ids = <<>>
    /\ spc' = "no_ids"
    /\ UNCHANGED <<seq_prog, seq_ids, done_ids, all_rows, incorrect_rows, per_id_times,
                   written, results_csv, incorrect_csv, timing_csv, summary_csv>>

RECURSIVE SumOf(_, _, _)
SumOf(rows, column, n) ==
    IF n = 0 THEN 0 ELSE SumOf(rows, column, n - 1) + rows[n][column]

\* results_df[column].sum(): automation_api guards it with results_df.empty,
\* dynamic_eligibility_checker indexes the column of a frame that has none
\* when all_rows is empty.
SumRaises(p, rows) == p = "page_main" /\ rows = <<>>

\* accuracy, in hundredths of a percent
Accuracy(correct, total) == IF total # 0 THEN (correct * 10000) \div total ELSE 0

\* After the loop: the report files, the totals, the summary file.
SeqReport ==
    /\ spc = "loop"
    /\ seq_ids # <<>>
    /\ Len(done_ids) = Len(seq_ids)
    /\ results_csv' = all_rows
    /\ incorrect_csv' = incorrect_rows
    /\ timing_csv' = IF seq_prog = "api_main" THEN per_id_times ELSE timing_csv
    /\ IF SumRaises(seq_prog, all_rows)
       THEN /\ spc' = "crashed"
            /\ written' = {"results", "incorrect"}
            /\ UNCHANGED summary_csv
       ELSE /\ spc' = "reported"
            /\ written' = {"results", "incorrect", "summary"}
                          \cup (IF seq_prog = "api_main" THEN {"timing"} ELSE {})
            /\ summary_csv' =
                 LET n == Len(all_rows)
                     total == SumOf(all_rows, "total_statements", n)
                     correct == SumOf(all_rows, "correct_statements", n)
                     incorrect == SumOf(all_rows, "incorrect_statements", n)
                 IN  IF seq_prog = "api_main"
                     THEN <<[total_nct_ids |-> n,
                             requested_nct_ids |-> Len(seq_ids),
                             total_statements |-> total,
                             correct_statements |-> correct,
                             incorrect_statements |-> incorrect,
                             accuracy_ratio |-> Accuracy(correct, total)]>>
                     ELSE <<[total_nct_ids |-> n,
                             total_statements |-> total,
                             correct_statements |-> correct,
                             incorrect_statements |-> incorrect,
                             accuracy_ratio |-> Accuracy(correct, total)]>>
    /\ UNCHANGED <<seq_prog, seq_ids, done_ids, all_rows, incorrect_rows, per_id_times>>

SeqInit ==
    /\ seq_prog \in {"api_main", "page_main"}
    /\ seq_ids \in {[k \in 1 .. n |-> k] : n \in 0 .. NumIds}
    /\ done_ids = <<>>
    /\ all_rows = <<>>
    /\ incorrect_rows = <<>>
    /\ per_id_times = <<>>
    /\ spc = "loop"
    /\ written = {}
    /\ results_csv = <<>>
    /\ incorrect_csv = <<>>
    /\ timing_csv = <<>>
    /\ summary_csv = <<>>

SeqIdle ==
    /\ seq_prog = "idle"
    /\ seq_ids = <<>>
    /\ done_ids = <<>>
    /\ all_rows = <<>>
    /\ incorrect_rows = <<>>
    /\ per_id_times = <<>>
    /\ spc = "idle"
    /\ written = {}
    /\ results_csv = <<>>
    /\ incorrect_csv = <<>>
    /\ timing_csv = <<>>
    /\ summary_csv = <<>>

SeqNext ==
    \/ SeqIteration /\ UNCHANGED notSeq
    \/ SeqNoIds /\ UNCHANGED notSeq
    \/ SeqReport /\ UNCHANGED notSeq

(***************************************************************************)
(* Claims about the sequential batch mains                                 *)
(***************************************************************************)
IdsIn(rows) == {rows[k].nctId : k \in DOMAIN rows}

\* C4 as stated: the results report written at the end has an entry for
\* every requested identifier, also for one whose fetch failed or whose
\* section was not found.
C4_EveryIdentifierReported ==
    "results" \in written =>
        \A k \in DOMAIN seq_ids : seq_ids[k] \in IdsIn(results_csv)

RECURSIVE Succeeded(_)
Succeeded(n) ==
    IF n = 0 THEN <<>>
    ELSE IF done_ids[n].kind = "ok" THEN Append(Succeeded(n - 1), seq_ids[n])
    ELSE Succeeded(n - 1)

\* C4 (amended): the results report written at the end holds exactly one
\* entry, in request order, for every requested identifier that was fetched
\* and analysed, and none for an identifier whose fetch failed or whose
\* criteria section was not found; automation_api.main still lists every
\* requested identifier in its timing report, and its summary gives the
\* requested and the processed counts.
C4_OnlySucceededReported ==
    "results" \in written =>
        /\ [k \in DOMAIN results_csv |-> results_csv[k].nctId] = Succeeded(Len(seq_ids))
        /\ seq_prog = "api_main" => timing_csv = seq_ids
        /\ (seq_prog = "api_main" /\ "summary" \in written) =>
              /\ summary_csv[1].requested_nct_ids = Len(seq_ids)
              /\ summary_csv[1].total_nct_ids = Len(Succeeded(Len(seq_ids)))

\* A run that reported after one identifier failed and another succeeded.
C4_Witness ==
    /\ spc = "reported"
    /\ \E j, k \in DOMAIN done_ids :
         /\ done_ids[j].kind # "ok"
         /\ done_ids[k].kind = "ok"
         /\ seq_ids[j] \notin IdsIn(results_csv)
         /\ seq_ids[k] \in IdsIn(results_csv)

(***************************************************************************)
(* Criteria markup with list items                                         *)
(*                                                                         *)
(* The markup the criteria field holds: headings in paragraphs, lists of   *)
(* items, and in an item text, further lists and, where the markup leaves  *)
(* the item open, the next item.  Text(<<>>) is a string of white space    *)
(* only.                                                                   *)
(***************************************************************************)
MaxSoup == 5

CriteriaKinds ==
    {Tag("p"), Tag("ol"), Tag("ul"), Tag("li"),
     Text(<<"a">>), Text(<<"b">>), Text(<<>>), Text(<<"exclusion", "criteria">>)}

\* The tag the node appended to d at the given depth becomes a child of.
ParentTagAt(d, depth) ==
    IF depth = 1 THEN "root"
    ELSE LET S == {j \in DOMAIN d : d[j].depth = depth - 1}
         IN  d[CHOOSE j \in S : \A k \in S : k <= j].tag

\* What markup nests where.
Nests(parent, n) ==
    CASE parent = "root" -> n.tag \in {"p", "ol", "ul"}
      [] parent = "p" -> n.tag = "#text" /\ Len(n.text) = 2
      [] parent \in ListTags -> n.tag = "li"
      [] parent = "li" -> \/ n.tag \in ListTags \cup {"li"}
                          \/ n.tag = "#text" /\ Len(n.text) <= 1
      [] OTHER -> FALSE

\* A compound item between two atomic ones, and an item holding only a list
\* of empty items.
MixedList ==
    <<At(Tag("ol"), 1),
      At(Tag("li"), 2), At(Text(<<"a">>), 3),
      At(Tag("li"), 2), At(Text(<<"b">>), 3), At(Tag("ul"), 3),
          At(Tag("li"), 4), At(Text(<<"a">>), 5),
      At(Tag("li"), 2), At(Text(<<"b">>), 3),
      At(Tag("li"), 2), At(Tag("ul"), 3), At(Tag("li"), 4)>>

HeadedLists ==
    <<At(Tag("ul"), 1), At(Tag("li"), 2), At(Text(<<"a">>), 3),
      At(Tag("p"), 1), At(Text(<<"exclusion", "criteria">>), 2),
      At(Tag("ol"), 1), At(Tag("li"), 2), At(Tag("ul"), 3), At(Tag("li"), 4),
          At(Text(<<"b">>), 5)>>

\* An item that holds two lists, each with an item of its own.
TwoListsInItem ==
    <<At(Tag("ol"), 1), At(Tag("li"), 2),
      At(Tag("ul"), 3), At(Tag("li"), 4), At(Text(<<"a">>), 5),
      At(Tag("ol"), 3), At(Tag("li"), 4), At(Text(<<"b">>), 5)>>

SoupInScope(d) ==
    \/ Len(d) <= MaxSoup
    \/ IsPrefix(d, MixedList)
    \/ IsPrefix(d, HeadedLists)
    \/ IsPrefix(d, TwoListsInItem)

\* BeautifulSoup(html, "html.parser"): the parser reads the next node.
SoupParseNode ==
    /\ apc = "parse"
    /\ \E x \in Extensions(soup, CriteriaKinds) :
         /\ Nests(ParentTagAt(soup, x.depth), x)
         /\ SoupInScope(Append(soup, x))
         /\ soup' = Append(soup, x)
    /\ UNCHANGED <<source, apc, incl_list, excl_list, inc_res, exc_res, run, earlier>>

(***************************************************************************)
(* The locators as functions of the document                               *)
(***************************************************************************)
\* find_inclusion_exclusion_lists_from_html
LocateApi(d) ==
    LET incl == ApiListAfterHeading(d, "inclusion")
        excl == ApiListAfterHeading(d, "exclusion")
    IN  IF incl = 0 \/ excl = 0
        THEN <<FallbackInclusion(d, 0, incl), FallbackExclusion(d, 0, excl)>>
        ELSE <<incl, excl>>

\* find_inclusion_exclusion_lists
LocatePage(d) ==
    LET root == SearchRoot(d)
        h_incl == PageListAfterHeading(d, root, "inclusion")
        h_excl == PageListAfterHeading(d, root, "exclusion")
        incl == IF NeedsContainer(h_incl) THEN ContainerRoot(d, INCL_ID) ELSE h_incl
        excl == IF NeedsContainer(h_excl) THEN ContainerRoot(d, EXCL_ID) ELSE h_excl
    IN  IF incl = 0 \/ excl = 0
        THEN <<FallbackInclusion(d, root, incl), FallbackExclusion(d, root, excl)>>
        ELSE <<incl, excl>>

FindLists(v, d) == IF v = "page" THEN LocatePage(d) ELSE LocateApi(d)

(***************************************************************************)
(* analyze_list                                                            *)
(***************************************************************************)
EmptyResults ==
    [correct |-> <<>>, incorrect |-> <<>>, correct_count |-> 0, incorrect_count |-> 0]

\* results = {...}: every call starts from a dict of its own.
NewResults_Kept(previous) == previous

NewResults(previous) == EmptyResults

RECURSIVE Ascending(_)
Ascending(S) == IF S = {} THEN <<>> ELSE <<First(S)>> \o Ascending(S \ {First(S)})

\* list_root.find_all("li", recursive=False)
TopItems_Recursive(d, list_root) ==
    Ascending({c \in Descendants(d, list_root) : d[c].tag = "li"})

TopItems(d, list_root) ==
    Ascending({c \in Children(d, list_root) : d[c].tag = "li"})

\* " ".join(item.stripped_strings): the strings below the item in document
\* order, each stripped, the empty ones dropped.
RECURSIVE StrippedStrings(_, _, _)
StrippedStrings(d, lo, hi) ==
    IF lo > hi THEN <<>>
    ELSE (IF IsText(d, lo) THEN d[lo].text ELSE <<>>) \o StrippedStrings(d, lo + 1, hi)

ItemText(d, item) == StrippedStrings(d, item + 1, item + Cardinality(Descendants(d, item)))

\* if not text: continue
Skipped_Never(text) == FALSE

Skipped(text) == text = <<>>

\* item.find(["ol", "ul"]) is not None
HasSub_ChildOnly(d, item) == \E c \in Children(d, item) : d[c].tag \in ListTags

HasSub(d, item) == FirstList(d, item) # 0

\* The record of an item and the branch that files it.
Record(text, type, has_sub) == [text |-> text, type |-> type, has_sub_bullet |-> has_sub]

File_Uncounted(res, record) ==
    IF record.has_sub_bullet
    THEN [res EXCEPT !.incorrect = Append(@, record)]
    ELSE [res EXCEPT !.correct = Append(@, record), !.correct_count = @ + 1]

File_Prepend(res, record) ==
    IF record.has_sub_bullet
    THEN [res EXCEPT !.incorrect = <<record>> \o @, !.incorrect_count = @ + 1]
    ELSE [res EXCEPT !.correct = <<record>> \o @, !.correct_count = @ + 1]

File(res, record) ==
    IF record.has_sub_bullet
    THEN [res EXCEPT !.incorrect = Append(@, record), !.incorrect_count = @ + 1]
    ELSE [res EXCEPT !.correct = Append(@, record), !.correct_count = @ + 1]

\* The for loop over top_items, after its first n items.
RECURSIVE AnalyzeItems(_, _, _, _, _)
AnalyzeItems(d, top_items, n, criteria_type, res) ==
    IF n = 0 THEN res
    ELSE LET sofar == AnalyzeItems(d, top_items, n - 1, criteria_type, res)
             item == top_items[n]
             text == ItemText(d, item)
         IN  IF Skipped(text) THEN sofar
             ELSE File(sofar, Record(text, criteria_type, HasSub(d, item)))

\* The list whose items are read: list_root, or the first list below a
\* container that was passed; 0 when there is none.
ResolvedList_ListOnly(d, list_root) ==
    IF list_root = 0 THEN 0
    ELSE IF d[list_root].tag \in ListTags THEN list_root
    ELSE 0

ResolvedList(d, list_root) ==
    IF list_root = 0 THEN 0
    ELSE IF d[list_root].tag \in ListTags THEN list_root
    ELSE FirstList(d, list_root)

AnalyzeList(d, list_root, criteria_type, previous) ==
    LET res == NewResults(previous)
        resolved == ResolvedList(d, list_root)
    IN  IF resolved = 0 THEN res
        ELSE LET top_items == TopItems(d, resolved)
             IN  AnalyzeItems(d, top_items, Len(top_items), criteria_type, res)

(***************************************************************************)
(* Locating and classifying one document, twice                            *)
(***************************************************************************)
LocateLists ==
    /\ apc \in {"parse", "again"}
    /\ incl_list' = FindLists(source, soup)[1]
    /\ excl_list' = FindLists(source, soup)[2]
    /\ apc' = "located"
    /\ UNCHANGED <<source, soup, inc_res, exc_res, run, earlier>>

AnalyzeInclusion ==
    /\ apc = "located"
    /\ inc_res' = AnalyzeList(soup, incl_list, "Inclusion", inc_res)
    /\ apc' = "half"
    /\ UNCHANGED <<source, soup, incl_list, excl_list, exc_res, run, earlier>>

AnalyzeExclusion ==
    /\ apc = "half"
    /\ exc_res' = AnalyzeList(soup, excl_list, "Exclusion", exc_res)
    /\ apc' = "analyzed"
    /\ UNCHANGED <<source, soup, incl_list, excl_list, inc_res, run, earlier>>

\* The same document is located and classified a second time.
RunAgain ==
    /\ apc = "analyzed"
    /\ run = 1
    /\ earlier' = <<[soup |-> soup, incl_list |-> incl_list, excl_list |-> excl_list,
                     inc_res |-> inc_res, exc_res |-> exc_res]>>
    /\ run' = 2
    /\ apc' = "again"
    /\ UNCHANGED <<source, soup, incl_list, excl_list, inc_res, exc_res>>

AnaInit ==
    /\ source \in {"api", "page"}
    /\ soup = <<>>
    /\ apc = "parse"
    /\ incl_list = 0
    /\ excl_list = 0
    /\ inc_res = EmptyResults
    /\ exc_res = EmptyResults
    /\ run = 1
    /\ earlier = <<>>

AnaIdle ==
    /\ source = "idle"
    /\ soup = <<>>
    /\ apc = "idle"
    /\ incl_list = 0
    /\ excl_list = 0
    /\ inc_res = EmptyResults
    /\ exc_res = EmptyResults
    /\ run = 1
    /\ earlier = <<>>

AnaNext ==
    \/ SoupParseNode /\ UNCHANGED notAna
    \/ LocateLists /\ UNCHANGED notAna
    \/ AnalyzeInclusion /\ UNCHANGED notAna
    \/ AnalyzeExclusion /\ UNCHANGED notAna
    \/ RunAgain /\ UNCHANGED notAna

(***************************************************************************)
(* Claims about analyze_list                                               *)
(***************************************************************************)
Sections == {"Inclusion", "Exclusion"}

\* The section's analyze_list call of this or an earlier run has returned.
Analyzed(section) ==
    \/ run = 2
    \/ apc \in {"analyzed", "again"}
    \/ section = "Inclusion" /\ apc = "half"

ListOf(section) == IF section = "Inclusion" THEN incl_list ELSE excl_list

ResOf(section) == IF section = "Inclusion" THEN inc_res ELSE exc_res

\* Stated without the code's calls: the item children of the list the
\* section resolved to, those of them with text, and whether an item has a
\* list anywhere below it.
ItemChildren(d, section) ==
    LET r == ResolvedList(d, ListOf(section)) IN
    IF r = 0 THEN <<>>
    ELSE Ascending({c \in DOMAIN d : d[c].tag = "li" /\ Parent(d, c) = r})

HasText(d, i) == \E j \in Descendants(d, i) : IsText(d, j) /\ d[j].text # <<>>

ContainsList(d, i) == \E j \in Descendants(d, i) : d[j].tag \in ListTags

Statements(d, section) == SelectSeq(ItemChildren(d, section), LAMBDA i : HasText(d, i))

\* The same document with the words a and b exchanged.
Retext(d) ==
    [k \in DOMAIN d |->
        IF d[k].text = <<"a">> THEN [d[k] EXCEPT !.text = <<"b">>]
        ELSE IF d[k].text = <<"b">> THEN [d[k] EXCEPT !.text = <<"a">>]
        ELSE d[k]]

Flags(res) ==
    <<[k \in DOMAIN res.correct |-> res.correct[k].has_sub_bullet],
      [k \in DOMAIN res.incorrect |-> res.incorrect[k].has_sub_bullet]>>

\* C11: a top-level item with text is filed as compound (has_sub_bullet,
\* "incorrect") exactly when a list node, ol or ul alike, lies anywhere
\* below it, and as atomic otherwise; the classification of a document does
\* not change when its texts are exchanged for other texts.
C11_ClassifiedByStructure ==
    \A section \in Sections :
        Analyzed(section) =>
            LET res == ResOf(section)
                S == Statements(soup, section)
            IN  /\ Len(res.incorrect) =
                     Len(SelectSeq(S, LAMBDA i : ContainsList(soup, i)))
                /\ Len(res.correct) =
                     Len(SelectSeq(S, LAMBDA i : ~ContainsList(soup, i)))
                /\ \A k \in DOMAIN res.incorrect : res.incorrect[k].has_sub_bullet
                /\ \A k \in DOMAIN res.correct : ~res.correct[k].has_sub_bullet
                /\ Flags(AnalyzeList(Retext(soup), ListOf(section), section, res))
                     = Flags(res)

\* A compound item whose only list, a ul, lies below a nested item.
C11_Witness ==
    /\ Analyzed("Inclusion")
    /\ inc_res.incorrect_count >= 1
    /\ \E i \in DOMAIN soup :
         /\ i \in {ItemChildren(soup, "Inclusion")[k] :
                      k \in DOMAIN ItemChildren(soup, "Inclusion")}
         /\ HasText(soup, i)
         /\ ContainsList(soup, i)
         /\ \A c \in Children(soup, i) : soup[c].tag \notin ListTags
         /\ \E j \in Descendants(soup, i) : soup[j].tag = "ul"

\* C12: correct_count is the length of the atomic list, incorrect_count the
\* length of the compound list, and together they are the number of item
\* children of the resolved list that have text.
C12_CountsMatchLists ==
    \A section \in Sections :
        Analyzed(section) =>
            LET res == ResOf(section) IN
            /\ res.correct_count = Len(res.correct)
            /\ res.incorrect_count = Len(res.incorrect)
            /\ res.correct_count + res.incorrect_count = Len(Statements(soup, section))

\* Both kinds of item counted, and an item without text left out.
C12_Witness ==
    /\ Analyzed("Inclusion")
    /\ inc_res.correct_count >= 1
    /\ inc_res.incorrect_count >= 1
    /\ Len(Statements(soup, "Inclusion")) < Len(ItemChildren(soup, "Inclusion"))

\* C13: no record has empty text: an item whose text is empty once stripped
\* is skipped and adds to neither count, also when it holds a nested list.
C13_NoEmptyStatement ==
    \A section \in Sections :
        Analyzed(section) =>
            LET res == ResOf(section)
                items == ItemChildren(soup, section)
                empty == SelectSeq(items, LAMBDA i : ItemText(soup, i) = <<>>)
            IN  /\ \A k \in DOMAIN res.correct : res.correct[k].text # <<>>
                /\ \A k \in DOMAIN res.incorrect : res.incorrect[k].text # <<>>
                /\ res.correct_count + res.incorrect_count = Len(items) - Len(empty)

\* An item holding a nested list and no text was passed over while another
\* item was recorded.
C13_Witness ==
    /\ Analyzed("Inclusion")
    /\ inc_res.correct_count + inc_res.incorrect_count >= 1
    /\ \E k \in DOMAIN ItemChildren(soup, "Inclusion") :
         LET i == ItemChildren(soup, "Inclusion")[k] IN
         ContainsList(soup, i) /\ ItemText(soup, i) = <<>>

\* a occurs in b as a run of consecutive words.
Within(a, b) ==
    \E off \in 0 .. (Len(b) - Len(a)) : \A k \in DOMAIN a : b[off + k] = a[k]

Texts(res) ==
    {res.correct[k].text : k \in DOMAIN res.correct}
    \cup {res.incorrect[k].text : k \in DOMAIN res.incorrect}

\* The items below an item child of the section's list.
NestedItems(d, section) ==
    {n \in DOMAIN d : d[n].tag = "li" /\
        \E k \in DOMAIN ItemChildren(d, section) :
            n \in Descendants(d, ItemChildren(d, section)[k])}

\* C14: only the immediate item children of the resolved list become
\* statements: an item nested below a top-level item, at any depth, has no
\* record of its own and is not counted, and its text is part of the text of
\* its top-level ancestor.
C14_OnlyImmediateItems ==
    \A section \in Sections :
        Analyzed(section) =>
            LET res == ResOf(section)
                items == ItemChildren(soup, section)
            IN  /\ Len(res.correct) + Len(res.incorrect) <= Len(items)
                /\ res.correct_count + res.incorrect_count <= Len(items)
                /\ Texts(res) \subseteq {ItemText(soup, items[k]) : k \in DOMAIN items}
                /\ \A k \in DOMAIN items :
                     \A n \in Descendants(soup, items[k]) :
                        soup[n].tag = "li" =>
                            Within(ItemText(soup, n), ItemText(soup, items[k]))

\* An item two lists deep with a text of its own that is no statement.
C14_Witness ==
    /\ Analyzed("Inclusion")
    /\ inc_res.incorrect_count >= 1
    /\ Len(inc_res.correct) + Len(inc_res.incorrect)
         < Cardinality({n \in Descendants(soup, incl_list) :
                           soup[n].tag = "li" /\ ItemText(soup, n) # <<>>})
    /\ \E n \in NestedItems(soup, "Inclusion") :
         /\ ItemText(soup, n) # <<>>
         /\ Cardinality({j \in DOMAIN soup : soup[j].tag \in ListTags /\
                            n \in Descendants(soup, j)}) >= 2

\* The index a record carries: its position, from 0, in the list it was
\* filed in.  IndexOf gives it for the k-th statement of the section.
IndexOf(d, section, k) ==
    LET S == Statements(d, section)
        same == SelectSeq(SubSeq(S, 1, k),
                          LAMBDA i : ContainsList(d, i) = ContainsList(d, S[k]))
    IN  Len(same) - 1

\* C15 as stated: every statement carries an order index that starts at 0
\* and increases strictly in document order over the atomic and the compound
\* statements of the section together.
C15_IndexInDocumentOrder ==
    \A section \in Sections :
        Analyzed(section) =>
            LET S == Statements(soup, section) IN
            \A k \in DOMAIN S :
                /\ k = 1 => IndexOf(soup, section, k) = 0
                /\ \A l \in DOMAIN S :
                     k < l => IndexOf(soup, section, k) < IndexOf(soup, section, l)

RecordsOf(d, items, criteria_type) ==
    [k \in DOMAIN items |->
        Record(ItemText(d, items[k]), criteria_type, ContainsList(d, items[k]))]

\* C15 (amended): a record holds text, type and has_sub_bullet and no order
\* index.  The atomic records are the atomic statements in document order
\* and the compound records are the compound statements in document order;
\* how atomic and compound statements were interleaved is not recorded.
C15_EachListInDocumentOrder ==
    \A section \in Sections :
        Analyzed(section) =>
            LET res == ResOf(section)
                S == Statements(soup, section)
            IN  /\ res.correct =
                     RecordsOf(soup, SelectSeq(S, LAMBDA i : ~ContainsList(soup, i)), section)
                /\ res.incorrect =
                     RecordsOf(soup, SelectSeq(S, LAMBDA i : ContainsList(soup, i)), section)
                /\ \A k \in DOMAIN res.correct :
                     DOMAIN res.correct[k] = {"text", "type", "has_sub_bullet"}
                /\ \A k \in DOMAIN res.incorrect :
                     DOMAIN res.incorrect[k] = {"text", "type", "has_sub_bullet"}

\* Two atomic statements with different texts around a compound one.
C15_Witness ==
    /\ Analyzed("Inclusion")
    /\ Len(inc_res.correct) >= 2
    /\ inc_res.correct[1].text # inc_res.correct[2].text
    /\ Len(inc_res.incorrect) >= 1
    /\ LET S == Statements(soup, "Inclusion") IN
       \E k \in DOMAIN S :
           /\ ContainsList(soup, S[k])
           /\ \E j \in 1 .. (k - 1) : ~ContainsList(soup, S[j])
           /\ \E l \in (k + 1) .. Len(S) : ~ContainsList(soup, S[l])

(***************************************************************************)
(* More claims about the locator                                           *)
(***************************************************************************)
\* The region the positional fallback collects its lists from.
Scope == IF variant = "page" THEN SearchRoot(doc) ELSE 0

\* What the tiers before the positional fallback yield for a section.
EarlierTiers(section) ==
    IF variant = "page"
    THEN IF HeadingTier(section) # 0 THEN HeadingTier(section) ELSE ContainerTier(section)
    ELSE ApiListAfterHeading(doc, SectionWord(section))

\* C16 as stated: a document without any list node yields None for both
\* sections, whatever headings and section containers it has.
C16_NoListBothAbsent ==
    (lpc = "done" /\ ListsIn(doc, 0) = {}) =>
        inclusion_list = 0 /\ exclusion_list = 0

\* C16 (amended): in a document without any list node
\* find_inclusion_exclusion_lists_from_html returns None for both sections,
\* and find_inclusion_exclusion_lists returns None for a section unless the
\* section's own container is there, which it then returns itself;
\* analyze_list finds no list in it and returns the empty result.
C16_NoListAbsentOrContainer ==
    (lpc = "done" /\ ListsIn(doc, 0) = {}) =>
        \A section \in {"Inclusion", "Exclusion"} :
            /\ RootOf(section) =
                 IF variant = "page" THEN FindDiv(doc, SectionId(section)) ELSE 0
            /\ AnalyzeList(doc, RootOf(section), section, EmptyResults) = EmptyResults

\* A page with a heading and the Inclusion container but no list: the
\* container is the Inclusion root, Exclusion has none.
C16_Witness ==
    /\ variant = "page"
    /\ lpc = "done"
    /\ ListsIn(doc, 0) = {}
    /\ FindDiv(doc, INCL_ID) # 0
    /\ inclusion_list = FindDiv(doc, INCL_ID)
    /\ exclusion_list = 0
    /\ \E i \in DOMAIN doc : IsText(doc, i) /\ Matches("inclusion", doc[i].text)

\* C17: a section that an earlier tier resolved keeps that root; when no
\* heading and no container resolved either section, Inclusion is the first
\* list node of the searched region in document order and Exclusion the
\* second, None when there is only one.
C17_PositionalFallback ==
    lpc = "done" =>
        /\ \A section \in {"Inclusion", "Exclusion"} :
              EarlierTiers(section) # 0 => RootOf(section) = EarlierTiers(section)
        /\ (EarlierTiers("Inclusion") = 0 /\ EarlierTiers("Exclusion") = 0) =>
              LET lists == Ascending(ListsIn(doc, Scope)) IN
              /\ inclusion_list = IF Len(lists) >= 1 THEN lists[1] ELSE 0
              /\ exclusion_list = IF Len(lists) >= 2 THEN lists[2] ELSE 0

\* Two lists and neither heading nor container: first and second.
C17_Witness ==
    /\ lpc = "done"
    /\ EarlierTiers("Inclusion") = 0
    /\ EarlierTiers("Exclusion") = 0
    /\ Cardinality(ListsIn(doc, Scope)) = 2
    /\ inclusion_list # 0
    /\ exclusion_list > inclusion_list

\* The string of the heading the scan finds for a section, 0 when it finds
\* none: the first matching string (API), the string of the first tag whose
\* .string matches (page).
RECURSIVE OnlyString(_, _)
OnlyString(d, i) ==
    LET c == First(Children(d, i)) IN
    IF IsText(d, c) THEN c ELSE OnlyString(d, c)

HeadingString(v, d, section) ==
    IF v = "api"
    THEN First({i \in DOMAIN d : IsText(d, i) /\ Matches(SectionWord(section), d[i].text)})
    ELSE LET h == First({i \in Descendants(d, SearchRoot(d)) :
                            /\ ~IsText(d, i)
                            /\ StringOf(d, i).some
                            /\ Matches(SectionWord(section), StringOf(d, i).text)})
         IN  IF h = 0 THEN 0 ELSE OnlyString(d, h)

HeadingScan(v, d, section) ==
    IF v = "api" THEN ApiListAfterHeading(d, SectionWord(section))
    ELSE PageListAfterHeading(d, SearchRoot(d), SectionWord(section))

\* The section's heading is found and no list follows it.
HeadingFails(section) ==
    /\ HeadingString(variant, doc, section) # 0
    /\ HeadingScan(variant, doc, section) = 0

Other(section) == IF section = "Inclusion" THEN "Exclusion" ELSE "Inclusion"

\* The document without its node i, and where node j of it was before.
WithoutNode(d, i) == [k \in 1 .. (Len(d) - 1) |-> IF k < i THEN d[k] ELSE d[k + 1]]

Before(j, i) == IF j >= i THEN j + 1 ELSE j

RootIn(roots, section) == IF section = "Inclusion" THEN roots[1] ELSE roots[2]

\* The root the other section gets when the section's heading string is
\* taken out of the document, as a node of the document itself.
OtherRootWithout(section) ==
    LET h == HeadingString(variant, doc, section)
        r == RootIn(FindLists(variant, WithoutNode(doc, h)), Other(section))
    IN  IF r = 0 THEN 0 ELSE Before(r, h)

Successes == SelectSeq(done_ids, LAMBDA o : o.kind = "ok")

RECURSIVE Total(_, _, _)
Total(outcomes, field, n) ==
    IF n = 0 THEN 0
    ELSE Total(outcomes, field, n - 1) + outcomes[n].inc[field] + outcomes[n].exc[field]

\* C20: the totals are computed after the loop, once, from the identifiers
\* that were analysed: every row and the batch sums satisfy total_statements
\* = correct_statements + incorrect_statements, the sums are the sums over
\* the analysed identifiers, and an identifier that failed adds to none.
C20_TotalsFromSuccesses ==
    /\ spc = "loop" => summary_csv = <<>>
    /\ \A k \in DOMAIN all_rows :
          all_rows[k].total_statements =
              all_rows[k].correct_statements + all_rows[k].incorrect_statements
    /\ "summary" \in written =>
          LET s == summary_csv[1]
              n == Len(Successes)
          IN  /\ Len(summary_csv) = 1
              /\ Len(done_ids) = Len(seq_ids)
              /\ s.total_nct_ids = n
              /\ s.correct_statements = Total(Successes, "correct_count", n)
              /\ s.incorrect_statements = Total(Successes, "incorrect_count", n)
              /\ s.total_statements = s.correct_statements + s.incorrect_statements
              /\ s.total_statements = SumOf(results_csv, "total_statements", Len(results_csv))

\* A report over two analysed identifiers with statements of both kinds and
\* one failed identifier.
C20_Witness ==
    /\ spc = "reported"
    /\ Len(Successes) >= 2
    /\ Len(Successes) < Len(done_ids)
    /\ summary_csv[1].correct_statements >= 2
    /\ summary_csv[1].incorrect_statements >= 1
    /\ \A k \in DOMAIN results_csv : results_csv[k].total_statements >= 1

(***************************************************************************)
(* Claims about the shared accumulators of the thread-pool mains           *)
(***************************************************************************)
Accumulators == <<results, combined, failed>>

\* C21: results and the other accumulators are written by the collecting
\* thread only, one merge per yielded future: a step of a worker task leaves
\* them alone, and a step that changes them is the merge of one identifier
\* whose task is done and was not merged before, which appends at most one
\* entry, that identifier's, to results.
C21_SingleWriter ==
    [][/\ task' # task =>
            /\ Accumulators' = Accumulators
            /\ collected' = collected
            /\ processed' = processed
       /\ Accumulators' # Accumulators =>
            /\ task' = task
            /\ mpc = "collect"
            /\ \E i \in Ids :
                 /\ task[i].st = "done"
                 /\ i \notin collected
                 /\ collected' = collected \cup {i}
                 /\ results' # results =>
                      /\ Len(results') = Len(results) + 1
                      /\ SubSeq(results', 1, Len(results)) = results
                      /\ results'[Len(results')].nctId = i]_vars

\* An entry has been merged while another task is in the middle of its
\* fetches.
C21_Witness ==
    /\ prog = "batch_compare"
    /\ Len(results) >= 1
    /\ \E j \in Ids :
         /\ task[j].st = "running"
         /\ task[j].tried = <<"api">>
         /\ \A k \in DOMAIN results : results[k].nctId # j

HeadingFound(v, d, section) == HeadingString(v, d, section) # 0

HeadingNode(v, d, section) ==
    IF v = "api" THEN Parent(d, HeadingString(v, d, section))
    ELSE First({i \in Descendants(d, SearchRoot(d)) :
                   /\ ~IsText(d, i)
                   /\ StringOf(d, i).some
                   /\ Matches(SectionWord(section), StringOf(d, i).text)})

\* The node the search itself returns: the matching string (API) or the
\* first tag whose .string matches (page).
MatchedNode(v, d, section) ==
    IF v = "api" THEN HeadingString(v, d, section) ELSE HeadingNode(v, d, section)

\* The siblings that follow node h in document order.
FollowingSiblings(d, h) ==
    IF h = 0 THEN {}
    ELSE {j \in (h + 1) .. Len(d) : j \notin Descendants(d, h) /\ Parent(d, j) = Parent(d, h)}

\* C26: what the heading scan yields for a section whose heading is found is
\* the first ol or ul among the siblings following the heading node (the
\* matched tag on the page, the matched string's parent in the API), or
\* nothing when there is none among them: siblings that are no lists are
\* passed over, and no list before the heading or outside its siblings is
\* taken.  Without a heading the scan yields nothing.
C26_FirstFollowingList ==
    lpc = "scanned" =>
        \A section \in {"Inclusion", "Exclusion"} :
            LET h == HeadingNode(variant, doc, section)
                lists == {j \in FollowingSiblings(doc, h) : doc[j].tag \in ListTags}
            IN  RootOf(section) =
                    IF HeadingFound(variant, doc, section) THEN First(lists) ELSE 0

\* C26 as first stated: the list taken is the first list among the siblings
\* that follow the matched node itself.  The API variant matches a string
\* and scans from that string's parent, so a list after the heading's
\* paragraph is taken although it is no sibling of the matched string.
C26_FollowsMatchedNode ==
    lpc = "scanned" =>
        \A section \in {"Inclusion", "Exclusion"} :
            LET h == MatchedNode(variant, doc, section)
                lists == {j \in FollowingSiblings(doc, h) : doc[j].tag \in ListTags}
            IN  RootOf(section) =
                    IF HeadingFound(variant, doc, section) THEN First(lists) ELSE 0

\* The scan passed over a paragraph between the heading and the list it
\* took.
C26_Witness ==
    /\ lpc = "scanned"
    /\ HeadingFound(variant, doc, "Inclusion")
    /\ inclusion_list # 0
    /\ \E j \in FollowingSiblings(doc, HeadingNode(variant, doc, "Inclusion")) :
         j < inclusion_list /\ doc[j].tag = "p"

(***************************************************************************)
(* Claim about a run in which every identifier fails                       *)
(***************************************************************************)
\* The run is past its loop and no identifier gave a result.
AllFailed ==
    /\ seq_ids # <<>>
    /\ Len(done_ids) = Len(seq_ids)
    /\ \A k \in DOMAIN done_ids : done_ids[k].kind # "ok"

\* C29: a run in which every identifier failed ends with a summary file
\* whose totals and accuracy are 0, in both mains, and never ends in an
\* error.  dynamic_eligibility_checker.main sums a column of a frame built
\* from no rows and ends in a KeyError before the summary is written.
C29_AllFailedSummarised ==
    /\ spc # "crashed"
    /\ (AllFailed /\ spc # "loop") =>
          /\ spc = "reported"
          /\ "summary" \in written
          /\ Len(summary_csv) = 1
          /\ summary_csv[1].total_statements = 0
          /\ summary_csv[1].correct_statements = 0
          /\ summary_csv[1].incorrect_statements = 0
          /\ summary_csv[1].accuracy_ratio = 0

(***************************************************************************)
(* analyze_list called on any root                                         *)
(***************************************************************************)
\* analyze_list(list_root, criteria_type) with list_root None or any tag of
\* the document.
AnalyzeRoot ==
    /\ apc = "parse"
    /\ \E root \in {0} \cup {i \in DOMAIN soup : ~IsText(soup, i)}, section \in {"Inclusion", "Exclusion"} :
         IF section = "Inclusion"
         THEN /\ incl_list' = root
              /\ inc_res' = AnalyzeList(soup, root, section, inc_res)
              /\ UNCHANGED <<excl_list, exc_res>>
         ELSE /\ excl_list' = root
              /\ exc_res' = AnalyzeList(soup, root, section, exc_res)
              /\ UNCHANGED <<incl_list, inc_res>>
    /\ apc' = "called"
    /\ UNCHANGED <<source, soup, run, earlier>>

RootNext ==
    \/ SoupParseNode /\ UNCHANGED notAna
    \/ AnalyzeRoot /\ UNCHANGED notAna

\* The lists below a root that is a tag.
ListsBelow(d, root) == {j \in Descendants(d, root) : d[j].tag \in ListTags}

NonListRoot(d, root) == root # 0 /\ d[root].tag \notin ListTags

\* C27: analyze_list returns the empty result with zero counts for an
\* absent root and for a root that is no list and has no list below it; for
\* a root that is no list it returns what it returns for the first list
\* below that root in document order.
C27_NonListRoot ==
    apc = "called" =>
        \A section \in {"Inclusion", "Exclusion"} :
            LET root == IF section = "Inclusion" THEN incl_list ELSE excl_list
                res == IF section = "Inclusion" THEN inc_res ELSE exc_res
                below == ListsBelow(soup, root)
            IN  /\ root = 0 => res = EmptyResults
                /\ (NonListRoot(soup, root) /\ below = {}) => res = EmptyResults
                /\ (NonListRoot(soup, root) /\ below # {}) =>
                      \E l \in below :
                          /\ \A j \in below : l <= j
                          /\ res = AnalyzeList(soup, l, section, EmptyResults)

\* An item was passed as root that has two lists below it, and the items of
\* the first were filed.
C27_Witness ==
    /\ apc = "called"
    /\ NonListRoot(soup, incl_list)
    /\ Cardinality(ListsBelow(soup, incl_list)) >= 2
    /\ inc_res.correct_count = 1
    /\ inc_res.correct[1].text = <<"a">>
    /\ \E j \in DOMAIN soup : IsText(soup, j) /\ soup[j].text = <<"b">>

(***************************************************************************)
(* compare_sets (batch_compare_ncts.py:43-57)                              *)
(*                                                                         *)
(* A statement is its sequence of characters.  "micro" is the micro sign   *)
(* U+00B5, "Mu" and "mu" the Greek capital and small letter mu: the upper  *)
(* case of the micro sign is the capital mu, whose lower case is the small *)
(* mu.                                                                     *)
(***************************************************************************)
MaxRecs == 3

CmpTexts == {<<"a">>, <<"A">>, <<" ", "a">>, <<"micro">>, <<"Mu">>}

CmpRecords == [statement : CmpTexts, type : {"Inclusion", "Exclusion"}]

\* str.strip()
RECURSIVE LStrip(_)
LStrip(s) == IF s # <<>> /\ Head(s) = " " THEN LStrip(Tail(s)) ELSE s

RECURSIVE RStrip(_)
RStrip(s) ==
    IF s # <<>> /\ s[Len(s)] = " " THEN RStrip(SubSeq(s, 1, Len(s) - 1)) ELSE s

StrStrip(s) == RStrip(LStrip(s))

\* str.lower(), str.upper()
LowerChar(c) ==
    CASE c = "A" -> "a" [] c = "B" -> "b" [] c = "Mu" -> "mu" [] OTHER -> c

UpperChar(c) ==
    CASE c = "a" -> "A" [] c = "b" -> "B" [] c = "micro" -> "Mu" [] c = "mu" -> "Mu"
      [] OTHER -> c

StrLower(s) == [k \in DOMAIN s |-> LowerChar(s[k])]

\* r["statement"].strip().lower()
Normalized_NoStrip(r) == StrLower(r.statement)

Normalized(r) == StrLower(StrStrip(r.statement))

\* {r["statement"].strip().lower() for r in recs}
StatementSet(recs) == {Normalized(recs[k]) : k \in DOMAIN recs}

\* {r["statement"].strip().lower(): r for r in recs}: a later record
\* replaces an earlier one under the same key.
StatementMap_FirstWins(recs) ==
    [s \in StatementSet(recs) |->
        recs[CHOOSE k \in DOMAIN recs :
                /\ Normalized(recs[k]) = s
                /\ \A j \in DOMAIN recs : Normalized(recs[j]) = s => k <= j]]

StatementMap(recs) ==
    [s \in StatementSet(recs) |->
        recs[CHOOSE k \in DOMAIN recs :
                /\ Normalized(recs[k]) = s
                /\ \A j \in DOMAIN recs : Normalized(recs[j]) = s => j <= k]]

\* site_set - json_set, json_set - site_set
MissingInJson_All(site_set, json_set) == site_set

MissingInJson(site_set, json_set) == site_set \ json_set

MissingOnSite(site_set, json_set) == json_set \ site_set

\* [m[s] for s in missing if s in m], for one order in which the set is
\* iterated.
MissingList(m, order) ==
    LET kept == SelectSeq(order, LAMBDA s : s \in DOMAIN m)
    IN  [k \in DOMAIN kept |-> m[kept[k]]]

\* What compare_sets returns when the two difference sets are iterated in
\* the orders o1 and o2.
CompareSetsReturn(site, json, o1, o2) ==
    [n_site |-> Len(site),
     n_json |-> Len(json),
     missing_in_json_list |-> MissingList(StatementMap(site), o1),
     missing_on_site_list |-> MissingList(StatementMap(json), o2)]

\* The caller's two record lists grow by one record.
AddSiteRecord ==
    /\ cpc = "build"
    /\ Len(site_recs) + Len(json_recs) < MaxRecs
    /\ \E r \in CmpRecords : site_recs' = Append(site_recs, r)
    /\ UNCHANGED <<json_recs, cpc, cmp_ret>>

AddJsonRecord ==
    /\ cpc = "build"
    /\ Len(site_recs) + Len(json_recs) < MaxRecs
    /\ \E r \in CmpRecords : json_recs' = Append(json_recs, r)
    /\ UNCHANGED <<site_recs, cpc, cmp_ret>>

\* compare_sets(site_recs, json_recs)
CompareSets ==
    /\ cpc = "build"
    /\ \E o1 \in Perms(MissingInJson(StatementSet(site_recs), StatementSet(json_recs))),
          o2 \in Perms(MissingOnSite(StatementSet(site_recs), StatementSet(json_recs))) :
         cmp_ret' = CompareSetsReturn(site_recs, json_recs, o1, o2)
    /\ cpc' = "compared"
    /\ UNCHANGED <<site_recs, json_recs>>

\* compare_sets(recs, recs): one collection passed as both arguments.
CompareSame ==
    /\ cpc = "build"
    /\ json_recs = <<>>
    /\ json_recs' = site_recs
    /\ \E o1 \in Perms(MissingInJson(StatementSet(site_recs), StatementSet(site_recs))),
          o2 \in Perms(MissingOnSite(StatementSet(site_recs), StatementSet(site_recs))) :
         cmp_ret' = CompareSetsReturn(site_recs, site_recs, o1, o2)
    /\ cpc' = "compared"
    /\ UNCHANGED site_recs

CmpInit ==
    /\ site_recs = <<>>
    /\ json_recs = <<>>
    /\ cpc = "build"
    /\ cmp_ret = None

CmpIdle ==
    /\ site_recs = <<>>
    /\ json_recs = <<>>
    /\ cpc = "idle"
    /\ cmp_ret = None

CmpNext ==
    \/ AddSiteRecord /\ UNCHANGED notCmp
    \/ AddJsonRecord /\ UNCHANGED notCmp
    \/ CompareSets /\ UNCHANGED notCmp
    \/ CompareSame /\ UNCHANGED notCmp

(***************************************************************************)
(* Claims about compare_sets                                               *)
(***************************************************************************)
Range(f) == {f[k] : k \in DOMAIN f}

\* The normalized statements of a list of records.
KeysOf(recs) == {Normalized(r) : r \in Range(recs)}

\* C22: every record of the first list is a record of A whose normalized
\* statement no record of B has, and the other way round for the second
\* list; every normalized statement of A that B lacks is in the first list
\* and every one of B that A lacks is in the second; no normalized statement
\* is in both lists; the two counts are the lengths of A and of B.
C22_DisjointDifferences ==
    cpc = "compared" =>
        LET first == cmp_ret.missing_in_json_list
            second == cmp_ret.missing_on_site_list
        IN  /\ \A r \in Range(first) :
                  /\ r \in Range(site_recs)
                  /\ \A q \in Range(json_recs) : Normalized(q) # Normalized(r)
            /\ \A r \in Range(second) :
                  /\ r \in Range(json_recs)
                  /\ \A q \in Range(site_recs) : Normalized(q) # Normalized(r)
            /\ \A r \in Range(site_recs) :
                  (\A q \in Range(json_recs) : Normalized(q) # Normalized(r))
                      => Normalized(r) \in KeysOf(first)
            /\ \A r \in Range(json_recs) :
                  (\A q \in Range(site_recs) : Normalized(q) # Normalized(r))
                      => Normalized(r) \in KeysOf(second)
            /\ KeysOf(first) \cap KeysOf(second) = {}
            /\ cmp_ret.n_site = Len(site_recs)
            /\ cmp_ret.n_json = Len(json_recs)

\* A statement shared up to case and blanks is in neither list, and the
\* first collection has a statement of its own.
C22_Witness ==
    /\ cpc = "compared"
    /\ Len(cmp_ret.missing_in_json_list) = 1
    /\ cmp_ret.missing_on_site_list = <<>>
    /\ cmp_ret.n_site = 2
    /\ cmp_ret.n_json = 1
    /\ \E r \in Range(site_recs), q \in Range(json_recs) :
         r.statement # q.statement /\ Normalized(r) = Normalized(q)

\* C30: a normalized statement occurs at most once in each returned list,
\* with the last record of its collection that has it; the counts are the
\* lengths of the collections, duplicates included; a collection compared
\* with itself gives two empty lists.
LastWith(recs, s) ==
    recs[CHOOSE k \in DOMAIN recs :
            /\ Normalized(recs[k]) = s
            /\ \A j \in (k + 1) .. Len(recs) : Normalized(recs[j]) # s]

C30_DuplicatesCollapsed ==
    cpc = "compared" =>
        LET first == cmp_ret.missing_in_json_list
            second == cmp_ret.missing_on_site_list
        IN  /\ \A j, k \in DOMAIN first :
                  Normalized(first[j]) = Normalized(first[k]) => j = k
            /\ \A j, k \in DOMAIN second :
                  Normalized(second[j]) = Normalized(second[k]) => j = k
            /\ \A k \in DOMAIN first : first[k] = LastWith(site_recs, Normalized(first[k]))
            /\ \A k \in DOMAIN second : second[k] = LastWith(json_recs, Normalized(second[k]))
            /\ cmp_ret.n_site = Len(site_recs)
            /\ cmp_ret.n_json = Len(json_recs)
            /\ site_recs = json_recs => (first = <<>> /\ second = <<>>)

\* A collection with the same statement twice, in different records, was
\* compared with itself.
C30_Witness ==
    /\ cpc = "compared"
    /\ site_recs = json_recs
    /\ cmp_ret.n_site >= 2
    /\ \E j, k \in DOMAIN site_recs :
         j < k /\ site_recs[j] # site_recs[k]
               /\ Normalized(site_recs[j]) = Normalized(site_recs[k])

\* The normalized statements a return value reports, per list.
Reported(ret) == <<KeysOf(ret.missing_in_json_list), KeysOf(ret.missing_on_site_list)>>

\* What compare_sets reports for other arguments.
RECURSIVE SomeOrder(_)
SomeOrder(S) ==
    IF S = {} THEN <<>>
    ELSE LET x == CHOOSE y \in S : TRUE IN <<x>> \o SomeOrder(S \ {x})

ReportedFor(site, json) ==
    LET o1 == SomeOrder(MissingInJson(StatementSet(site), StatementSet(json)))
        o2 == SomeOrder(MissingOnSite(StatementSet(site), StatementSet(json)))
    IN  Reported(CompareSetsReturn(site, json, o1, o2))

\* d is c in the other letter case, or c itself.
CaseOf(c, d) ==
    \/ d = c
    \/ d = UpperChar(c) \/ d = LowerChar(c)
    \/ c = UpperChar(d) \/ c = LowerChar(d)

\* Two records whose statements differ at most in letter case and in
\* leading and trailing blanks; their types may differ.
AlikeByCase(r, q) ==
    LET s == StrStrip(r.statement)
        t == StrStrip(q.statement)
    IN  Len(s) = Len(t) /\ \A k \in DOMAIN s : CaseOf(s[k], t[k])

\* The same, for letters that str.lower() maps to one character.
AlikeByLower(r, q) ==
    LET s == StrStrip(r.statement)
        t == StrStrip(q.statement)
    IN  Len(s) = Len(t) /\ \A k \in DOMAIN s : LowerChar(s[k]) = LowerChar(t[k])

\* The collections that differ from recs in one record changed to a record
\* alike, or in the order of two neighbouring records.
Changed(recs, Alike(_, _)) ==
    UNION {{[recs EXCEPT ![k] = q] : q \in {x \in CmpRecords : Alike(recs[k], x)}} :
              k \in DOMAIN recs}
    \cup {[recs EXCEPT ![k] = recs[k + 1], ![k + 1] = recs[k]] : k \in 1 .. (Len(recs) - 1)}

\* C23 as first stated: a change of letter case or of leading and trailing
\* blanks in a statement, of a record's type, or of the order of the records
\* of A or of B leaves the reported normalized statements as they are.  The
\* micro sign and the capital mu are one letter in two cases with different
\* lower-case forms.
C23_CaseBlindKey ==
    cpc = "compared" =>
        /\ \A a \in Changed(site_recs, AlikeByCase) :
              ReportedFor(a, json_recs) = Reported(cmp_ret)
        /\ \A b \in Changed(json_recs, AlikeByCase) :
              ReportedFor(site_recs, b) = Reported(cmp_ret)

\* C23: the key is statement.strip().lower(): a change of leading and
\* trailing blanks, a change of case between letters with the same
\* lower-case form, a change of a record's type, and a change of the order
\* of A or of B leave the reported normalized statements as they are.
C23_StripLowerKey ==
    cpc = "compared" =>
        /\ \A a \in Changed(site_recs, AlikeByLower) :
              ReportedFor(a, json_recs) = Reported(cmp_ret)
        /\ \A b \in Changed(json_recs, AlikeByLower) :
              ReportedFor(site_recs, b) = Reported(cmp_ret)

\* Two records of A with one key, in different case, blanks and type, and
\* none of it in B: reported once.
C23_Witness ==
    /\ cpc = "compared"
    /\ Len(cmp_ret.missing_in_json_list) = 1
    /\ \E j, k \in DOMAIN site_recs :
         /\ site_recs[j].statement = <<" ", "a">>
         /\ site_recs[k].statement = <<"A">>
         /\ site_recs[j].type # site_recs[k].type
    /\ json_recs # <<>>

(***************************************************************************)
(* The identifier readers                                                  *)
(*                                                                         *)
(* The identifier column of the input file, cell by cell.  A value is its  *)
(* sequence of characters, with the prefix NCT as one of them; <<"NaN">>   *)
(* is an empty cell of a CSV.                                              *)
(***************************************************************************)
MaxCells == 3

NaN == <<"NaN">>

CellValues == {<<"NCT", "1">>, <<" ", "NCT", "1">>, <<"NCT", "2">>, <<"X", "9">>, NaN}

Readers == {"read_nct_ids_from_csv", "load_nct_ids_from_csv", "extract_nct_ids_from_ctg_file"}

\* What a file for the reader can hold: the regular expression of the ctg
\* reader captures no empty cell.
ValuesFor(r) == IF r = "extract_nct_ids_from_ctg_file" THEN CellValues \ {NaN} ELSE CellValues

\* Series.unique(), and the seen-set loop of the ctg reader: the first
\* occurrence of each value, in order.
RECURSIVE Unique(_)
Unique(s) ==
    IF s = <<>> THEN <<>>
    ELSE LET front == Unique(SubSeq(s, 1, Len(s) - 1))
             last == s[Len(s)]
         IN  IF \E k \in DOMAIN front : front[k] = last THEN front ELSE Append(front, last)

\* str(v), astype(str)
AsStr(v) == IF v = NaN THEN <<"nan">> ELSE v

\* n.startswith("NCT")
StartsWithNCT(n) == n # <<>> /\ Head(n) = "NCT"

Each(s, Op(_)) == [k \in DOMAIN s |-> Op(s[k])]

\* automation_api.read_nct_ids_from_csv: dropna, unique, then strip, then
\* the prefix filter.
ReadNctIdsFromCsv(column) ==
    LET values == Unique(SelectSeq(column, LAMBDA v : v # NaN))
        ncts == Each(values, LAMBDA v : StrStrip(AsStr(v)))
    IN  SelectSeq(ncts, StartsWithNCT)

\* batch_compare_ncts.load_nct_ids_from_csv: astype(str), strip, the prefix
\* filter, then unique.
LoadNctIdsFromCsv(column) ==
    Unique(SelectSeq(Each(Each(column, AsStr), StrStrip), StartsWithNCT))

\* extract_nct_ids_from_ctg_file: every captured value, first occurrences
\* only.
ExtractNctIdsFromCtgFile(ids) == Unique(ids)

ReadCsvApi ==
    /\ rpc = "file"
    /\ reader = "read_nct_ids_from_csv"
    /\ ids_read' = ReadNctIdsFromCsv(cells)
    /\ rpc' = "read"
    /\ UNCHANGED <<reader, cells>>

LoadCsvBatch ==
    /\ rpc = "file"
    /\ reader = "load_nct_ids_from_csv"
    /\ ids_read' = LoadNctIdsFromCsv(cells)
    /\ rpc' = "read"
    /\ UNCHANGED <<reader, cells>>

ExtractCtg ==
    /\ rpc = "file"
    /\ reader = "extract_nct_ids_from_ctg_file"
    /\ ids_read' = ExtractNctIdsFromCtgFile(cells)
    /\ rpc' = "read"
    /\ UNCHANGED <<reader, cells>>

ReadInit ==
    /\ reader \in Readers
    /\ cells \in UNION {[1 .. n -> ValuesFor(reader)] : n \in 0 .. MaxCells}
    /\ rpc = "file"
    /\ ids_read = <<>>

ReadIdle ==
    /\ reader = "idle"
    /\ cells = <<>>
    /\ rpc = "idle"
    /\ ids_read = <<>>

ReadNext ==
    \/ ReadCsvApi /\ UNCHANGED notRead
    \/ LoadCsvBatch /\ UNCHANGED notRead
    \/ ExtractCtg /\ UNCHANGED notRead

\* C24: the list a reader hands to its batch loop has no identifier twice
\* and only identifiers that start with NCT, whatever the file holds.
\* read_nct_ids_from_csv removes duplicates before it strips, and
\* extract_nct_ids_from_ctg_file neither strips nor looks at the prefix.
C24_UniquePrefixedIds ==
    rpc = "read" =>
        /\ \A j, k \in DOMAIN ids_read : ids_read[j] = ids_read[k] => j = k
        /\ \A k \in DOMAIN ids_read : StartsWithNCT(ids_read[k])

(***************************************************************************)
(* download_one under the thread pool                                      *)
(*                                                                         *)
(* The tasks the pool runs at the same time, each at its own place in      *)
(* download_one.  A path is a file name and the counter ensure_unique_path *)
(* put into it, 0 for the name as it is.                                   *)
(***************************************************************************)
DlTasks == 1 .. Workers

FileNames == {"a.pdf", "b.pdf"}

PathOf(name, counter) == [name |-> name, counter |-> counter]

NoPath == PathOf("", 0)

\* requests.get and safe_filename_from_url: the response names the file, or
\* the request raises and the task returns its error dict.
DlGet(t) ==
    /\ dl[t].pc = "get"
    /\ \/ \E name \in FileNames :
            dl' = [dl EXCEPT ![t].pc = "exists", ![t].filename = name, ![t].counter = 0]
       \/ dl' = [dl EXCEPT ![t].pc = "error"]
    /\ UNCHANGED out_dir

\* ensure_unique_path: one exists() test, of target first and of the
\* numbered candidates after it.
DlExists(t) ==
    /\ dl[t].pc = "exists"
    /\ LET cand == PathOf(dl[t].filename, dl[t].counter) IN
       IF cand \notin out_dir
       THEN dl' = [dl EXCEPT ![t].pc = "open", ![t].path = cand]
       ELSE dl' = [dl EXCEPT ![t].counter = @ + 1]
    /\ UNCHANGED out_dir

\* open(target_path, "wb"): the file is created, or truncated if it exists.
DlOpen(t) ==
    /\ dl[t].pc = "open"
    /\ out_dir' = out_dir \cup {dl[t].path}
    /\ dl' = [dl EXCEPT ![t].pc = "write", ![t].opened = TRUE]

\* The chunks are written and the file closed, or iter_content raises.
DlWrite(t) ==
    /\ dl[t].pc = "write"
    /\ \E end \in {"success", "error"} : dl' = [dl EXCEPT ![t].pc = end]
    /\ UNCHANGED out_dir

\* out_dir.mkdir(parents=True, exist_ok=True): the directory may hold files
\* of an earlier run.
DlInit ==
    /\ out_dir \in SUBSET {PathOf("a.pdf", 0), PathOf("a.pdf", 1)}
    /\ dl = [t \in DlTasks |->
                [pc |-> "get", filename |-> "", counter |-> 0, path |-> NoPath,
                 opened |-> FALSE]]

DlIdle ==
    /\ out_dir = {}
    /\ dl = <<>>

DlNext ==
    \/ \E t \in DlTasks : DlGet(t) /\ UNCHANGED notDl
    \/ \E t \in DlTasks : DlExists(t) /\ UNCHANGED notDl
    \/ \E t \in DlTasks : DlOpen(t) /\ UNCHANGED notDl
    \/ \E t \in DlTasks : DlWrite(t) /\ UNCHANGED notDl

\* C28: no two download tasks open the same target path for writing, also
\* when their URLs give the same file name.  exists() and open() are two
\* steps: a second task can test the path between them and is given the
\* same one.
C28_DistinctTargets ==
    \A t, u \in DlTasks :
        (t # u /\ dl[t].opened /\ dl[u].opened) => dl[t].path # dl[u].path


\* The variables of compare_sets, of the readers and of the downloads at
\* rest.
ToolsIdle == CmpIdle /\ ReadIdle /\ DlIdle

FetchNext ==
    \/ FetchAttempt /\ UNCHANGED notFetch
    \/ FetchGiveUp /\ UNCHANGED notFetch

InitFetch == FetchInit /\ BatchIdle /\ LocIdle /\ SeqIdle /\ AnaIdle /\ ToolsIdle

SpecFetch == InitFetch /\ [][FetchNext]_vars

InitBatch == BatchInit /\ FetchIdle /\ LocIdle /\ SeqIdle /\ AnaIdle /\ ToolsIdle

SpecBatch == InitBatch /\ [][BatchNext]_vars

\* The same runs over the list in file order, with the main thread and the
\* worker threads scheduled fairly and every call of a task returning.
InitBatchFair == InitBatch /\ nct_ids = [k \in Ids |-> k]

SpecBatchFair == InitBatchFair /\ [][BatchNext]_vars /\ WF_vars(BatchNext)

InitLocate == LocInit /\ FetchIdle /\ BatchIdle /\ SeqIdle /\ AnaIdle /\ ToolsIdle

SpecLocate == InitLocate /\ [][LocNext]_vars

InitSeq == SeqInit /\ FetchIdle /\ BatchIdle /\ LocIdle /\ AnaIdle /\ ToolsIdle

SpecSeq == InitSeq /\ [][SeqNext]_vars

InitAnalyze == AnaInit /\ FetchIdle /\ BatchIdle /\ LocIdle /\ SeqIdle /\ ToolsIdle

InitCompare ==
    CmpInit /\ FetchIdle /\ BatchIdle /\ LocIdle /\ SeqIdle /\ AnaIdle /\ ReadIdle /\ DlIdle

SpecCompare == InitCompare /\ [][CmpNext]_vars

InitRead ==
    ReadInit /\ FetchIdle /\ BatchIdle /\ LocIdle /\ SeqIdle /\ AnaIdle /\ CmpIdle /\ DlIdle

SpecRead == InitRead /\ [][ReadNext]_vars

InitDownload ==
    DlInit /\ FetchIdle /\ BatchIdle /\ LocIdle /\ SeqIdle /\ AnaIdle /\ CmpIdle /\ ReadIdle

SpecDownload == InitDownload /\ [][DlNext]_vars

SpecRoot == InitAnalyze /\ [][RootNext]_vars

SpecAnalyze == InitAnalyze /\ [][AnaNext]_vars

=============================================================================
